---- MODULE Spec2Model ----
(***************************************************************************)
(* Background job engine of the Pond Finder backend                        *)
(* (src/backend/services/jobService.ts, src/backend/models/Job.ts).        *)
(*                                                                         *)
(* The service runs on one Node.js event loop.  Every `await` on a store   *)
(* operation is a point where other requests and workflows interleave, so  *)
(* each store operation is one action, taken at the moment the store       *)
(* executes it; the synchronous code that follows the previous operation   *)
(* (and touches only locals) is folded into that action.  Callbacks that   *)
(* read or write the in-memory counter runningCount are actions of their   *)
(* own.                                                                    *)
(*                                                                         *)
(* Dates other than createdAt are never read by the service: startedAt and *)
(* completedAt are modelled as Null or Stamp.                              *)
(***************************************************************************)
EXTENDS Integers, Sequences, FiniteSets, TLC

(* --------------------------- bounds ----------------------------------- *)
MaxJobs == 1          \* jobs in Spec and SpecOwners
MaxSchedJobs == 3     \* jobs in SpecSched; SpecOverload has one more
MaxItems == 1         \* params.waterBodies.length of a batch-property job
NumUsers == 2         \* requesters
MaxPolls == 2         \* the maxPolls argument of apiPollJob
MaxHits == 1          \* probes of one ring with a candidate address, in SpecResolve and SpecRadii
MaxRingHits == 2      \* the same in SpecRing
MaxBatchItems == 3    \* params.waterBodies.length of the job in SpecBatch and SpecEnrich
MaxCrashJobs == 2     \* jobs in SpecRestart
MaxCrashes == 1       \* times the process stops and starts again in SpecRestart
NumCallers == 2       \* concurrent callers of the cached demographic fetch in SpecRace
ExpiryKeys == 1       \* keys looked up per cache in SpecExpiry
ExtraKeys == 1        \* keys beyond the capacity of a cache in SpecCapacity and SpecRace
MaxErrors == 2        \* consecutive failed requests of the geodata client
MaxFetchJobs == 2     \* jobs with a demographic fetch in SpecFetch
MaxViews == 2         \* map views, far apart, that the debounced fetch is called for
MaxTimers == 3        \* timers set by fetchWaterBodiesDebounced
MaxTenths == 4        \* the edges of a scanned box lie at 0.0, 0.1 .. MaxTenths / 10 degrees

(* ----------------------- program constants ---------------------------- *)
JOB_CONCURRENCY == 2

\* const angles = [0, 45, 90, 135, 180, 225, 270, 315]
angles == <<0, 45, 90, 135, 180, 225, 270, 315>>

\* mutant: only the distances within the search radius, the radius last
DistancesWithin(searchRadiusMeters) ==
  SelectSeq(<<100, 250>>, LAMBDA d : d < searchRadiusMeters) \o <<searchRadiusMeters>>

\* const distances = [100, 250, searchRadiusMeters]
Distances(searchRadiusMeters) == <<100, 250, searchRadiusMeters>>

Callers == 1..NumCallers

Null == "null"
Stamp == "date"
Users == 1..NumUsers

JobTypes == {"water-scan", "batch-property", "census-load", "full-analysis"}
\* a record written by something other than createJob, whose type is outside the enum
LegacyType == "legacy-scan"

QueuedMessage == "Queued - waiting to start..."
StartingMessage == "Starting..."
CancelledMessage == "Cancelled by user"

VARIABLES
  jobs,             \* the Job collection, in insertion order; _id = index
  runningCount,     \* let runningCount
  creating,         \* createJob calls whose Job.create has resolved, not yet resumed
  queries,          \* processNextJob's findOneAndUpdate calls in flight
  task,             \* per job: the executeJob call made for it
  cancelOps,        \* cancelJob calls between findOne and save: <<job, status read>>
  cancelRet,        \* what the last cancelJob call to return returned
  cancelledPending, \* jobs for which a cancelJob that read them pending has returned
  booted,           \* the start-up timer has fired
  poll,             \* the apiPollJob call of the client
  call,             \* the lookupPropertyByCoordinates call
  probes,           \* the 8 _reverseAndLookup promises of the ring being probed
  credentials,      \* the Settings document holds smartyAuthId and smartyAuthToken
  crashes,          \* times the process has stopped and started again
  now,              \* Date.now()
  censusCache,      \* const censusCache = new Map(), its entries in insertion order
  censusCalls,      \* the getCensusIncomeByBBoxCached calls in flight, per caller
  censusRet,        \* what the last getCensusIncomeByBBoxCached call to return returned
  responseCache,    \* const responseCache = new Map(), its entries in insertion order
  waterCalls,       \* the fetchWaterBodies calls in flight, per caller
  waterRet,         \* what the last fetchWaterBodies call to return returned
  limiter,          \* isRateLimited, rateLimitResetTime, consecutiveErrors
  scan,             \* the cell grid a region scan has put into its job's result
  settingsDocs,     \* the number of documents in the Settings collection
  instanceCalls,    \* the Settings.getInstance calls in flight, per caller
  debounce          \* debounceTimer, lastBbox and the fetches of fetchWaterBodiesDebounced

\* the state of the job service
jobVars == <<jobs, runningCount, creating, queries, task, cancelOps, cancelRet,
             cancelledPending, booted>>

\* the state outside the job service, which no function of jobService.ts touches
\* the clock, the demographics cache and the geodata client
cacheVars == <<now, censusCache, censusCalls, censusRet, responseCache, waterCalls,
               waterRet, limiter>>

\* the scan grid, the Settings collection and the debounced geodata fetch
sideVars == <<scan, settingsDocs, instanceCalls, debounce>>

beyondJobs == <<poll, call, probes, credentials, crashes, sideVars, cacheVars>>

\* the state of one lookupPropertyByCoordinates call
resolverVars == <<call, probes>>

vars == <<jobVars, beyondJobs>>

JobIds == DOMAIN jobs

(* ----------------------------- Job model ------------------------------ *)
NewJob(type, items, user, at) ==
  [type |-> type, items |-> items, createdBy |-> user, createdAt |-> at,
   status |-> "pending", progress |-> 0, statusMessage |-> QueuedMessage,
   result |-> Null, tracts |-> Null, properties |-> << >>, error |-> Null,
   startedAt |-> Null, completedAt |-> Null]

\* results: the entries of `results` so far; late: the lookups the running
\* workflow has issued with the job stored as cancelled; tracts: the
\* workflow's `tracts`, the list fetched ("fetched") or [] ("empty")
NoTask == [pc |-> "none", step |-> 0, err |-> Null, sawCancel |-> FALSE,
           results |-> << >>, late |-> 0, tracts |-> Null]

RECURSIVE MaxOf(_)
MaxOf(S) == IF S = {} THEN 0
            ELSE LET x == CHOOSE y \in S : TRUE
                     m == MaxOf(S \ {x})
                 IN IF x > m THEN x ELSE m

LastCreatedAt == MaxOf({jobs[j].createdAt : j \in JobIds})

(* ------------------------- processNextJob ----------------------------- *)
\* the number of findOneAndUpdate calls one processNextJob() call issues
ProcessNextJob(rc) == IF rc >= JOB_CONCURRENCY THEN 0 ELSE 1

\* mutant: the filter also matches the jobs stored as running
PendingOrRunning == {j \in JobIds : jobs[j].status \in {"pending", "running"}}

Pending == {j \in JobIds : jobs[j].status = "pending"}

\* mutant: sort { createdAt: -1 }
Newest(S) == {j \in S : \A k \in S : jobs[j].createdAt >= jobs[k].createdAt}

\* { status: "pending" } sorted by createdAt ascending: the candidates for the first match
Oldest(S) == {j \in S : \A k \in S : jobs[j].createdAt <= jobs[k].createdAt}

NextPending == Oldest(Pending)


(* --------------------------- the workflows ---------------------------- *)
\* Math.round for a non-negative quotient num/den: floor(num/den + 1/2)
JsRound(num, den) == (2 * num + den) \div (2 * den)

\* Math.min(100, Math.max(0, progress))
Clamp(p) == IF p < 0 THEN 0 ELSE IF p > 100 THEN 100 ELSE p

Upd(p, m) == [op |-> "update", progress |-> p, message |-> m]
Call(kind) == [op |-> kind, progress |-> 0, message |-> ""]
Fin(m, r) == [op |-> "complete", progress |-> 100, message |-> m, result |-> r,
              tracts |-> Null, properties |-> << >>]

WaterScanSteps ==
  << Upd(5, "Scanning sub-regions..."),
     Upd(50, "Prepared scan cells"),
     Fin("Ready", "cells") >>

\* one iteration of the for loop over waterBodies, then the rest
RECURSIVE BatchLoop(_, _)
BatchLoop(processed, total) ==
  IF processed >= total THEN << >>
  ELSE << Upd(JsRound(processed * 90, total) + 5, "Looking up property..."),
          Call("lookup"),
          Call("delay") >> \o BatchLoop(processed + 1, total)

BatchSteps(total) ==
  BatchLoop(0, total) \o << Fin("Completed - properties looked up", "properties") >>

CensusLoadSteps ==
  << Upd(10, "Loading census demographics..."),
     Call("fetch"),
     Upd(90, "Processing tracts..."),
     Fin("Completed - census tracts loaded", "tracts") >>

FullAnalysisSteps ==
  << Upd(5, "Preparing region scan..."),
     Upd(30, "Loading census demographics..."),
     Call("fetch-absorbed"),
     Upd(70, "Census tracts. Preparing results..."),
     Fin("Analysis complete", "analysis") >>

\* executeJob's switch (job.type)
Workflow(type, items) ==
  CASE type = "water-scan"     -> WaterScanSteps
    [] type = "batch-property" -> BatchSteps(items)
    [] type = "census-load"    -> CensusLoadSteps
    [] type = "full-analysis"  -> FullAnalysisSteps
    [] OTHER                   -> << >>

\* the workflows of the jobs that are submitted, worked out once
Workflows ==
  [type \in JobTypes \cup {LegacyType},
   items \in 0..(IF MaxItems > MaxBatchItems THEN MaxItems ELSE MaxBatchItems)
     |-> Workflow(type, items)]

Steps(job) == Workflows[job.type, job.items]

NoWaterBodies == "No water bodies provided for property lookup"
UnknownType == "Unknown job type"
FetchFailed == "TIGERweb tract query failed"

\* what the synchronous start of executeJob throws, Null when it reaches its first await
ThrownAtStart(job) ==
  IF job.type \notin JobTypes THEN UnknownType
  ELSE IF job.type = "batch-property" /\ job.items = 0 THEN NoWaterBodies
  ELSE Null

\* the task positioned on step i of its workflow, the operation of that step issued
AtStep(t, job, i) ==
  LET s == Steps(job)[i]
  IN [t EXCEPT !.step = i,
               !.pc = CASE s.op = "update"   -> "read"
                        [] s.op = "complete" -> "final"
                        [] OTHER             -> "await",
               !.late = IF s.op = "lookup" /\ job.status = "cancelled"
                          THEN t.late + 1 ELSE t.late]

\* mutant: the check of the status is missing, the update is saved all the same
StopIgnored(t) == [t EXCEPT !.pc = "save", !.sawCancel = TRUE]

\* `if (!(await updateProgress(...))) return;` : the workflow returns, executeJob resolves
StopWorkflow(t) == [t EXCEPT !.pc = "finally", !.sawCancel = TRUE, !.late = 0]

\* a throw inside the try block: control is in the catch block, awaiting Job.findById
Throw(t, msg) == [t EXCEPT !.pc = "catchRead", !.err = msg]

(* ------------------------------ actions ------------------------------- *)
\* createJob up to the resolution of Job.create
Submit(max, type, items, user, tick) ==
  /\ Len(jobs) < max
  /\ (type # "batch-property" => items = 0)
  /\ jobs' = Append(jobs, NewJob(type, items, user, LastCreatedAt + tick))
  /\ task' = Append(task, NoTask)
  /\ creating' = creating + 1
  /\ UNCHANGED <<runningCount, queries, cancelOps, cancelRet,
                 cancelledPending, booted, beyondJobs>>

\* createJob resumes: processNextJob(); return job
SubmitReturn ==
  /\ creating > 0
  /\ creating' = creating - 1
  /\ queries' = queries + ProcessNextJob(runningCount)
  /\ UNCHANGED <<jobs, runningCount, task, cancelOps, cancelRet,
                 cancelledPending, booted, beyondJobs>>

\* setTimeout(() => processNextJob(), 2000)
Boot ==
  /\ ~booted
  /\ booted' = TRUE
  /\ queries' = queries + ProcessNextJob(runningCount)
  /\ UNCHANGED <<jobs, runningCount, creating, task, cancelOps, cancelRet,
                 cancelledPending, beyondJobs>>

\* mutant: the update leaves the status as it is
PromoteKeepsStatus(job) ==
  [job EXCEPT !.startedAt = Stamp, !.statusMessage = StartingMessage]

\* the update document of processNextJob's findOneAndUpdate
Promote(job) ==
  [job EXCEPT !.status = "running", !.startedAt = Stamp,
              !.statusMessage = StartingMessage]

\* the store executes one findOneAndUpdate of processNextJob
QueryExec ==
  /\ queries > 0
  /\ queries' = queries - 1
  /\ IF NextPending = {}
       THEN UNCHANGED <<jobs, task>>      \* .then: if (!job) return
       ELSE \E j \in NextPending :
              /\ jobs' = [jobs EXCEPT ![j] = Promote(jobs[j])]
              /\ task' = [task EXCEPT ![j].pc = "then"]
  /\ UNCHANGED <<runningCount, creating, cancelOps, cancelRet,
                 cancelledPending, booted, beyondJobs>>

\* mutant: the decrement is missing
ReleaseMissing(rc) == rc

\* runningCount++ / runningCount--
Acquire(rc) == rc + 1
Release(rc) == rc - 1

\* the .then callback: runningCount++; executeJob(job) runs to its first await
ThenStart(j) ==
  /\ task[j].pc = "then"
  /\ runningCount' = Acquire(runningCount)
  /\ task' = [task EXCEPT ![j] =
                IF ThrownAtStart(jobs[j]) # Null
                  THEN Throw(task[j], ThrownAtStart(jobs[j]))
                  ELSE AtStep(task[j], jobs[j], 1)]
  /\ UNCHANGED <<jobs, creating, queries, cancelOps, cancelRet,
                 cancelledPending, booted, beyondJobs>>

\* updateProgress: `if (!job || job.status === "cancelled") return false`
UpdateStops(job) == job.status = "cancelled"

\* updateProgress: the store executes Job.findById
UpdRead(j) ==
  /\ task[j].pc = "read"
  /\ task' = [task EXCEPT ![j] =
                IF UpdateStops(jobs[j]) THEN StopWorkflow(task[j])
                                        ELSE [task[j] EXCEPT !.pc = "save"]]
  /\ UNCHANGED <<jobs, runningCount, creating, queries, cancelOps, cancelRet,
                 cancelledPending, booted, beyondJobs>>

\* job.save() of updateProgress: the modified paths progress and statusMessage
SaveProgress(job, s) ==
  [job EXCEPT !.progress = Clamp(s.progress), !.statusMessage = s.message]

\* updateProgress: the store executes job.save(); the workflow goes on to its next step
UpdSave(j) ==
  /\ task[j].pc = "save"
  /\ jobs' = [jobs EXCEPT ![j] = SaveProgress(jobs[j], Steps(jobs[j])[task[j].step])]
  /\ task' = [task EXCEPT ![j] = AtStep(task[j], jobs[j], task[j].step + 1)]
  /\ UNCHANGED <<runningCount, creating, queries, cancelOps, cancelRet,
                 cancelledPending, booted, beyondJobs>>

\* mutant: executeFullAnalysis awaits the fetch outside a try block
FetchSettledUncaught(t, job, op, ok) ==
  IF ok THEN AtStep([t EXCEPT !.tracts = "fetched"], job, t.step + 1)
  ELSE IF op = "fetch" THEN Throw(t, FetchFailed)
  ELSE Throw([t EXCEPT !.tracts = "empty"], FetchFailed)

\* `await getCensusIncomeByBBoxCached(...)` settles: executeCensusLoad awaits
\* it bare (op "fetch"), executeFullAnalysis after `let tracts = []` in a try
\* block whose catch logs a warning (op "fetch-absorbed")
FetchSettled(t, job, op, ok) ==
  IF ok THEN AtStep([t EXCEPT !.tracts = "fetched"], job, t.step + 1)
  ELSE IF op = "fetch" THEN Throw(t, FetchFailed)
  ELSE AtStep([t EXCEPT !.tracts = "empty"], job, t.step + 1)

\* the census fetch or the 200 ms delay settles.  ok = FALSE: the call rejected.
AwaitDone(j, ok) ==
  /\ task[j].pc = "await"
  /\ LET op == Steps(jobs[j])[task[j].step].op
     IN /\ op # "lookup"
        /\ (op = "delay" => ok)
        /\ task' = [task EXCEPT ![j] =
                      IF op = "delay"
                        THEN AtStep(task[j], jobs[j], task[j].step + 1)
                        ELSE FetchSettled(task[j], jobs[j], op, ok)]
  /\ UNCHANGED <<jobs, runningCount, creating, queries, cancelOps, cancelRet,
                 cancelledPending, booted, beyondJobs>>

\* mutant: the update document lacks progress: 100
CompleteWithoutProgress(job, s) ==
  [job EXCEPT !.status = "completed",
              !.statusMessage = s.message, !.result = s.result, !.tracts = s.tracts,
              !.properties = s.properties, !.completedAt = Stamp]

\* the workflow's last Job.findByIdAndUpdate
Complete(job, s) ==
  [job EXCEPT !.status = "completed", !.progress = 100,
              !.statusMessage = s.message, !.result = s.result, !.tracts = s.tracts,
              !.properties = s.properties, !.completedAt = Stamp]

\* the update document of the workflow's last step; executeBatchPropertyLookup
\* writes result: { properties: results, totalProcessed: total },
\* executeCensusLoad result: { tracts, ... } and executeFullAnalysis
\* result: { scanCells: cells, censusTracts: tracts, ... }
LastStep(t, job) ==
  LET s == Steps(job)[t.step]
  IN IF job.type = "batch-property" THEN [s EXCEPT !.properties = t.results]
     ELSE [s EXCEPT !.tracts = t.tracts]

Final(j) ==
  /\ task[j].pc = "final"
  /\ jobs' = [jobs EXCEPT ![j] = Complete(jobs[j], LastStep(task[j], jobs[j]))]
  /\ task' = [task EXCEPT ![j].pc = "finally", ![j].late = 0]
  /\ UNCHANGED <<runningCount, creating, queries, cancelOps, cancelRet,
                 cancelledPending, booted, beyondJobs>>

\* executeJob's catch: `if (current?.status === "cancelled") return`
CatchReturns(job) == job.status = "cancelled"

\* executeJob's catch: the store executes Job.findById
CatchRead(j) ==
  /\ task[j].pc = "catchRead"
  /\ task' = [task EXCEPT ![j].pc =
                IF CatchReturns(jobs[j]) THEN "finally" ELSE "catchWrite"]
  /\ UNCHANGED <<jobs, runningCount, creating, queries, cancelOps, cancelRet,
                 cancelledPending, booted, beyondJobs>>

\* error.message || "Unknown error"
ErrorText(msg) == IF msg = "" THEN "Unknown error" ELSE msg

\* mutant: the update document lacks the error field
FailWithoutError(job, msg) ==
  [job EXCEPT !.status = "failed",
              !.statusMessage = "Failed: " \o ErrorText(msg),
              !.completedAt = Stamp]

\* the update document of the catch block's findByIdAndUpdate
Fail(job, msg) ==
  [job EXCEPT !.status = "failed", !.error = ErrorText(msg),
              !.statusMessage = "Failed: " \o ErrorText(msg),
              !.completedAt = Stamp]

CatchWrite(j) ==
  /\ task[j].pc = "catchWrite"
  /\ jobs' = [jobs EXCEPT ![j] = Fail(jobs[j], task[j].err)]
  /\ task' = [task EXCEPT ![j].pc = "finally"]
  /\ UNCHANGED <<runningCount, creating, queries, cancelOps, cancelRet,
                 cancelledPending, booted, beyondJobs>>

\* the .finally callback: runningCount--; processNextJob()
Finally(j) ==
  /\ task[j].pc = "finally"
  /\ runningCount' = Release(runningCount)
  /\ queries' = queries + ProcessNextJob(runningCount')
  /\ task' = [task EXCEPT ![j].pc = "ended"]
  /\ UNCHANGED <<jobs, creating, cancelOps, cancelRet,
                 cancelledPending, booted, beyondJobs>>

\* mutant: the filter lacks createdBy
CancelFilterAnyOwner(j, user) ==
  /\ j \in JobIds
  /\ jobs[j].status \in {"pending", "running"}

\* the filter of cancelJob's findOne
CancelFilter(j, user) ==
  /\ j \in JobIds
  /\ jobs[j].createdBy = user
  /\ jobs[j].status \in {"pending", "running"}

\* cancelJob: the store executes Job.findOne; `if (!job) return null`
CancelFind(j, user) ==
  /\ UNCHANGED <<runningCount, creating, queries, booted, cancelledPending,
                 task, jobs, beyondJobs>>
  /\ IF CancelFilter(j, user)
       THEN /\ cancelOps' = cancelOps \cup {<<j, jobs[j].status>>}
            /\ UNCHANGED cancelRet
       ELSE /\ cancelRet' = "null"
            /\ UNCHANGED cancelOps

\* job.save() of cancelJob: the modified paths status, statusMessage, completedAt
SaveCancel(job) ==
  [job EXCEPT !.status = "cancelled", !.statusMessage = CancelledMessage,
              !.completedAt = Stamp]

\* cancelJob: the store executes job.save(); return job
CancelSave(j, saw) ==
  /\ <<j, saw>> \in cancelOps
  /\ cancelOps' = cancelOps \ {<<j, saw>>}
  /\ jobs' = [jobs EXCEPT ![j] = SaveCancel(jobs[j])]
  /\ cancelRet' = "job"
  /\ cancelledPending' = IF saw = "pending" THEN cancelledPending \cup {j}
                                             ELSE cancelledPending
  /\ UNCHANGED <<runningCount, creating, queries, task, booted, beyondJobs>>

(* --------------------- smartyService: one probe ----------------------- *)
\* what the vendor does with the reverse-geocode request of one lookup
GeoAnswers == {"http500", "netError", "badJson", "noResults", "emptyList",
               "entryNoAddress", "address"}
\* ... with the address validation request
ValAnswers == {"http500", "netError", "emptyList", "entryMalformed",
               "noStreet", "valid"}
\* ... with the enrichment request
EnrAnswers == {"http500", "netError", "badJson", "noOwner", "owner"}

\* a request that is never sent has no answer
Unsent == "unsent"

\* a text is the sequence of its characters; the attribute is absent
NoUse == << >>
\* attributes["property_use_type"] of the enrichment responses tried
UseTypes == {NoUse,
             <<"S", "i", "n", "g", "l", "e", " ", "F", "a", "m", "i", "l", "y", " ", "R", "e", "s", "i", "d", "e", "n", "t", "i", "a", "l">>,
             <<"R", "e", "t", "a", "i", "l", " ", "S", "t", "o", "r", "e">>,
             <<"F", "a", "r", "m">>,
             <<"V", "a", "c", "a", "n", "t", " ", "L", "a", "n", "d">>,
             <<"C", "h", "u", "r", "c", "h">>}
Unknown == <<"u", "n", "k", "n", "o", "w", "n">>

\* the answers to the requests of one _reverseAndLookup call, up to the
\* request at which the call ends, and the property_use_type attribute of
\* the enrichment response
VendorAnswers ==
  {<<g, Unsent, Unsent, NoUse>> : g \in GeoAnswers \ {"address"}}
    \cup {<<"address", v, Unsent, NoUse>> : v \in ValAnswers \ {"noStreet", "valid"}}
    \cup {<<"address", v, e, NoUse>> : v \in {"noStreet", "valid"}, e \in EnrAnswers}

\* answers whose enrichment response carries a property_use_type
LandUseAnswers == {<<"address", "valid", "owner", use>> : use \in UseTypes}

\* answers of a vendor that is down: every request fails
DownAnswers == {<<g, Unsent, Unsent, NoUse>> : g \in {"http500", "netError"}}

\* PropertyLookupResult | null, by the fields the service reads; `probe` is
\* the point <<ring, index>> the record was looked up for (<<0, 0>>: the
\* exact coordinates)
NoResult == [found |-> FALSE, ownerName |-> "", street |-> "", propertyType |-> << >>,
             probe |-> <<0, 0>>]

Fulfilled(r) == [st |-> "fulfilled", r |-> r]
\* the promise rejects with a TypeError
Rejected == [st |-> "rejected", r |-> NoResult]
Idle == [st |-> "idle", r |-> NoResult]
InFlight == [st |-> "inflight", r |-> NoResult]
\* settled after Promise.all has rejected: nobody reads the outcome
Late == [st |-> "late", r |-> NoResult]

\* reverseGeocode: the candidate list; an entry is TRUE when it has an address
ReverseGeocode(configured, geo) ==
  IF ~configured THEN << >>
  ELSE CASE geo = "address"        -> << TRUE >>
         [] geo = "entryNoAddress" -> << FALSE >>
         [] OTHER                  -> << >>

\* validateAddress: SmartyAddressResult | null
ValidateAddress(configured, val) ==
  IF ~configured \/ val \in {"http500", "netError", "emptyList"}
    THEN [validated |-> FALSE, wellFormed |-> FALSE, delivery_line_1 |-> ""]
    ELSE [validated |-> TRUE,
          wellFormed |-> val # "entryMalformed",
          delivery_line_1 |-> IF val = "valid" THEN "street" ELSE ""]

BuildPartialResult(validated, at) ==
  [found |-> TRUE, ownerName |-> "", street |-> validated.delivery_line_1,
   propertyType |-> Unknown, probe |-> at]

\* attributes["1st_owner_name"] || "", attributes["property_use_type"] || "unknown"
ParsePropertyData(enr, use, validated, at) ==
  [found |-> TRUE, ownerName |-> IF enr = "owner" THEN "owner" ELSE "",
   street |-> validated.delivery_line_1,
   propertyType |-> IF use = NoUse THEN Unknown ELSE use, probe |-> at]

\* lookupPropertyOwner: a validated entry without components or metadata
\* throws in the try block and again in buildPartialResult in the catch block
LookupPropertyOwner(configured, val, enr, use, at) ==
  LET validated == ValidateAddress(configured, val)
  IN IF ~configured \/ ~validated.validated THEN Fulfilled(NoResult)
     ELSE IF ~validated.wellFormed THEN Rejected
     ELSE IF enr \in {"http500", "netError", "badJson"}
       THEN Fulfilled(BuildPartialResult(validated, at))
       ELSE Fulfilled(ParsePropertyData(enr, use, validated, at))

\* _reverseAndLookup: `closest.address.street` throws on an entry without address
ReverseAndLookup(configured, answer, at) ==
  LET geoResults == ReverseGeocode(configured, answer[1])
  IN IF Len(geoResults) = 0 THEN Fulfilled(NoResult)
     ELSE IF ~geoResults[1] THEN Rejected
     ELSE LookupPropertyOwner(configured, answer[2], answer[3], answer[4], at)

\* the answers in which every response is a well-formed 2xx response
CleanAnswers ==
  {a \in VendorAnswers : /\ a[1] \in {"emptyList", "address"}
                         /\ a[2] \in {Unsent, "emptyList", "noStreet", "valid"}
                         /\ a[3] \in {Unsent, "noOwner", "owner"}}

\* the answer for a point where the vendor knows no address
NoAddressAnswers == {<<"emptyList", Unsent, Unsent, NoUse>>}

\* the outcomes _reverseAndLookup has over the answers of the set
OutcomesWithCredentials(answers) ==
  {ReverseAndLookup(TRUE, answer, <<0, 0>>) : answer \in answers}
OutcomesWithoutCredentials(answers) ==
  {ReverseAndLookup(FALSE, answer, <<0, 0>>) : answer \in answers}

AnyOutcomes == OutcomesWithCredentials(VendorAnswers)
AnyOutcomesUnconfigured == OutcomesWithoutCredentials(VendorAnswers)
CleanOutcomes == OutcomesWithCredentials(CleanAnswers)
NoAddressOutcomes == OutcomesWithCredentials(NoAddressAnswers)

\* the outcomes of one lookup under the credentials of the call
ProbeOutcomes(configured) ==
  IF configured THEN AnyOutcomes ELSE AnyOutcomesUnconfigured

\* the outcome as it is for the point `at`
For(out, at) == IF out.r.found THEN [out EXCEPT !.r.probe = at] ELSE out

(* ------------- smartyService: lookupPropertyByCoordinates ------------- *)
\* searchRadiusMeters: number = 500
DefaultRadius == 500

\* the searchRadiusMeters arguments tried: the default and a smaller one
SearchRadii == {200, DefaultRadius}

NoCall == [pc |-> "idle", radius |-> 0, configured |-> TRUE, direct |-> NoResult,
           ring |-> 0, dist |-> 0, lookups |-> 0, ret |-> NoResult]

\* mutant: the owner test also asks for a street
HasOwnerAndStreet(r) == r.found /\ r.ownerName # "" /\ r.street # ""

\* r && r.ownerName
HasOwner(r) == r.found /\ r.ownerName # ""

\* mutant: the fallback test reads the mailing street, filled only with an owner
HasMailingStreet(r) == r.found /\ r.street # "" /\ r.ownerName # ""

\* r && r.propertyAddress?.street
HasStreet(r) == r.found /\ r.street # ""

\* mutant: `return null` after the last ring
FallbackNull(c) == NoResult

\* `return direct` after the last ring
Fallback(c) == c.direct

\* mutant: the last match instead of the first
FindLast(S) == IF S = {} THEN 0 ELSE CHOOSE i \in S : \A k \in S : i >= k

\* Array.prototype.find over the indices S that satisfy the predicate:
\* the first of them, 0 for undefined
Find(S) == IF S = {} THEN 0 ELSE CHOOSE i \in S : \A k \in S : i <= k

\* mutant: Promise.any in place of Promise.all
AnySettled(ps) == \E i \in DOMAIN ps : ps[i].st = "fulfilled"

\* Promise.all(probes) has resolved
AllSettled(ps) == \A i \in DOMAIN ps : ps[i].st = "fulfilled"

\* probes of the ring that have settled with a record or with an exception
Hits(ps) == Cardinality({i \in DOMAIN ps : ps[i].st = "rejected" \/ ps[i].r.found})

\* the call starts: _reverseAndLookup(latitude, longitude) is issued
Resolve(searchRadiusMeters, configured) ==
  /\ call.pc = "idle"
  /\ call' = [call EXCEPT !.pc = "direct", !.radius = searchRadiusMeters,
                          !.configured = configured, !.lookups = 1]
  /\ UNCHANGED <<jobVars, poll, probes, credentials, crashes, sideVars, cacheVars>>

\* the direct lookup settles with `out`; a rejection propagates out of the call
DirectSettle(out) ==
  /\ call.pc = "direct"
  /\ call' = IF out.st = "rejected"
               THEN [call EXCEPT !.pc = "threw"]
               ELSE [call EXCEPT !.pc = "afterDirect", !.direct = out.r]
  /\ UNCHANGED <<jobVars, poll, probes, credentials, crashes, sideVars, cacheVars>>

\* one iteration of `for (const dist of distances)` up to `await Promise.all`:
\* the 8 probes of ring k are issued
StartRing(c, k) ==
  [c EXCEPT !.pc = "ring", !.ring = k, !.dist = Distances(c.radius)[k],
            !.lookups = c.lookups + Len(angles)]

\* `if (direct && direct.ownerName) return direct`, else the first ring
AfterDirect ==
  /\ call.pc = "afterDirect"
  /\ IF HasOwner(call.direct)
       THEN /\ call' = [call EXCEPT !.pc = "returned", !.ret = call.direct]
            /\ UNCHANGED probes
       ELSE /\ call' = StartRing(call, 1)
            /\ probes' = [i \in DOMAIN angles |-> InFlight]
  /\ UNCHANGED <<jobVars, poll, credentials, crashes, sideVars, cacheVars>>

\* probe i of the ring settles with `out`; the first rejection rejects
\* Promise.all and the call throws: the results so far are dropped and the
\* other probes settle later, unobserved
ProbeSettle(i, out, maxHits) ==
  /\ probes[i].st = "inflight"
  /\ IF call.pc = "threw"
       THEN /\ probes' = [probes EXCEPT ![i] = Late]
            /\ UNCHANGED call
     ELSE IF out.st = "rejected"
       THEN /\ Hits(probes) < maxHits
            /\ probes' = [k \in DOMAIN probes |->
                            IF k = i THEN Rejected
                            ELSE IF probes[k].st = "inflight" THEN InFlight
                            ELSE Late]
            /\ call' = [call EXCEPT !.pc = "threw"]
       ELSE /\ out.r.found => Hits(probes) < maxHits
            /\ probes' = [probes EXCEPT ![i] = For(out, <<call.ring, i>>)]
            /\ UNCHANGED call
  /\ UNCHANGED <<jobVars, poll, credentials, crashes, sideVars, cacheVars>>

\* Promise.all has resolved: the acceptance of the ring's results, then the
\* next ring or, after the last one, `return direct`
RingDone ==
  /\ call.pc = "ring"
  /\ AllSettled(probes)
  /\ LET results == [i \in DOMAIN probes |-> probes[i].r]
         found == Find({i \in DOMAIN results : HasOwner(results[i])})
         partial == Find({i \in DOMAIN results : HasStreet(results[i])})
     IN IF found # 0
          THEN /\ call' = [call EXCEPT !.pc = "returned", !.ret = results[found]]
               /\ UNCHANGED probes
        ELSE IF partial # 0
          THEN /\ call' = [call EXCEPT !.pc = "returned", !.ret = results[partial]]
               /\ UNCHANGED probes
        ELSE IF call.ring < Len(Distances(call.radius))
          THEN /\ call' = StartRing(call, call.ring + 1)
               /\ probes' = [i \in DOMAIN angles |-> InFlight]
          ELSE /\ call' = [call EXCEPT !.pc = "returned", !.ret = Fallback(call)]
               /\ UNCHANGED probes
  /\ UNCHANGED <<jobVars, poll, credentials, crashes, sideVars, cacheVars>>

(* ------------------------- the polling client ------------------------ *)
NoPoll == [pc |-> "idle", id |-> 0, maxPolls |-> 0, i |-> 0, job |-> Null]

\* apiPollJob(id, onProgress, intervalMs, maxPolls) enters its loop and sends
\* the first GET /api/jobs/:id
PollStart(j, maxPolls) ==
  /\ poll.pc = "idle"
  /\ poll' = [pc |-> IF 0 < maxPolls THEN "get" ELSE "threw",
              id |-> j, maxPolls |-> maxPolls, i |-> 0, job |-> Null]
  /\ UNCHANGED <<jobVars, resolverVars, credentials, crashes, sideVars, cacheVars>>

\* ["completed", "failed", "cancelled"].includes(job.status)
PollStops(status) == status \in {"completed", "failed", "cancelled"}

\* the server answers one GET with the stored job: `return job` on a terminal
\* status, else the interval elapses and the loop goes on to its next round
\* or ends with `throw new Error("Job polling timed out")`
PollGet ==
  /\ poll.pc = "get"
  /\ poll' = IF PollStops(jobs[poll.id].status)
               THEN [poll EXCEPT !.pc = "returned", !.job = jobs[poll.id].status]
               ELSE [poll EXCEPT !.i = poll.i + 1,
                                 !.job = jobs[poll.id].status,
                                 !.pc = IF poll.i + 1 < poll.maxPolls
                                          THEN "get" ELSE "threw"]
  /\ UNCHANGED <<jobVars, resolverVars, credentials, crashes, sideVars, cacheVars>>

(* --------------------------- the caches ------------------------------- *)
\* an entry of either Map is [key, data, timestamp]

\* Map.prototype.get: the position of the key's entry, 0 for undefined
IndexOf(m, key) ==
  IF \E i \in DOMAIN m : m[i].key = key
    THEN CHOOSE i \in DOMAIN m : m[i].key = key
    ELSE 0

\* mutant: every set appends, the key's older entry stays
MapAppend(m, e) == Append(m, e)

\* Map.prototype.set: the entry of a key that is present is replaced where it
\* is, a new key is appended
MapSet(m, e) ==
  IF IndexOf(m, e.key) # 0 THEN [m EXCEPT ![IndexOf(m, e.key)] = e] ELSE Append(m, e)

\* m.keys().next().value, then m.delete of it
DeleteFirst(m) == IF m = << >> THEN m ELSE Tail(m)

\* mutant: never fresh, every lookup is a miss
NeverFresh(entry, t, ttl) == FALSE

\* mutant: Date.now() - cached.timestamp <= TTL
FreshOrDue(entry, t, ttl) == t - entry.timestamp <= ttl

\* Date.now() - cached.timestamp < TTL
Fresh(entry, t, ttl) == t - entry.timestamp < ttl

(* ------------- censusService: getCensusIncomeByBBoxCached ------------- *)
CENSUS_CACHE_TTL == 30 * 60 * 1000

\* `if (censusCache.size > 20)`
CensusCacheMax == 20

\* roundCoord(n) = Math.round(n * 100) / 100, n >= 0 in thousandths of a
\* degree, the result in hundredths
RoundCoord(n) == (n + 5) \div 10

\* the key of the box whose south edge is `south`; the boxes tried have their
\* other edges in common
CensusKey(south) == RoundCoord(south)

\* the tract list the remote query returns for the box at time t
Tracts(south, t) == [box |-> south, at |-> t]
NoTracts == [box |-> 0, at |-> 0]

NoCensusCall == [pc |-> "idle", south |-> 0, key |-> 0]

\* a return: to whom, for which key, what, and whether from the cache
\* ("cache"), from the remote query ("fetch") or as a rejection ("threw")
NoCensusRet == [caller |-> 0, key |-> 0, data |-> NoTracts, from |-> "none"]

\* censusCache.set(key, ...), then the eviction of the first key when size > 20
CensusPut(m, e) ==
  IF Len(MapSet(m, e)) > CensusCacheMax THEN DeleteFirst(MapSet(m, e)) ELSE MapSet(m, e)

\* the call up to its return of the cached data or to `await getCensusIncomeByBBox`
CensusGet(c, south) ==
  /\ censusCalls[c].pc = "idle"
  /\ LET key == CensusKey(south)
         i == IndexOf(censusCache, key)
     IN IF i # 0 /\ Fresh(censusCache[i], now, CENSUS_CACHE_TTL)
          THEN /\ censusRet' = [caller |-> c, key |-> key,
                                data |-> censusCache[i].data, from |-> "cache"]
               /\ UNCHANGED censusCalls
          ELSE /\ censusCalls' = [censusCalls EXCEPT ![c] =
                     [pc |-> "fetching", south |-> south, key |-> key]]
               /\ UNCHANGED censusRet
  /\ UNCHANGED <<jobVars, poll, call, probes, credentials, crashes, sideVars, now, censusCache,
                 responseCache, waterCalls, waterRet, limiter>>

\* the remote query settles: the data is stored and returned, or the
\* rejection propagates to the caller
CensusFetched(c, ok) ==
  /\ censusCalls[c].pc = "fetching"
  /\ censusCalls' = [censusCalls EXCEPT ![c] = NoCensusCall]
  /\ IF ok
       THEN LET data == Tracts(censusCalls[c].south, now)
            IN /\ censusCache' = CensusPut(censusCache,
                     [key |-> censusCalls[c].key, data |-> data, timestamp |-> now])
               /\ censusRet' = [caller |-> c, key |-> censusCalls[c].key,
                                data |-> data, from |-> "fetch"]
       ELSE /\ censusRet' = [caller |-> c, key |-> censusCalls[c].key,
                             data |-> NoTracts, from |-> "threw"]
            /\ UNCHANGED censusCache
  /\ UNCHANGED <<jobVars, poll, call, probes, credentials, crashes, sideVars, now,
                 responseCache, waterCalls, waterRet, limiter>>

\* the clock reads t
Tick(t) ==
  /\ t > now
  /\ now' = t
  /\ UNCHANGED <<jobVars, poll, call, probes, credentials, crashes, sideVars, censusCache,
                 censusCalls, censusRet, responseCache, waterCalls, waterRet, limiter>>

(* ----------------- geodata client: fetchWaterBodies ------------------- *)
CACHE_TTL == 5 * 60 * 1000
MAX_CACHE_SIZE == 50

\* bbox.south as fetchWaterBodies hands it to the cache, in units of
\* 0.0000001 degree
CacheKeyBox(south, includeSmall) == IF includeSmall THEN south + 1 ELSE south

\* getBboxCacheKey: Math.round(n * 1000) / 1000, the result in thousandths;
\* the boxes tried have their other edges in common
GetBboxCacheKey(south) == (south + 5000) \div 10000

\* the list parsed from the response for the box at time t; the empty list
\* of a call that gives up
WaterBodies(south, includeSmall, t) ==
  [list |-> "parsed", box |-> south, small |-> includeSmall, at |-> t]
EmptyList == [list |-> "empty", box |-> 0, small |-> FALSE, at |-> 0]

NoWaterCall == [pc |-> "idle", south |-> 0, small |-> FALSE, key |-> 0]

\* a return: to whom, for which key and which includeSmall, what, and
\* whether from the cache ("cache"), while backing off ("backoff"), from a
\* parsed response ("fetch"), after a 429 ("429") or after another failure
\* ("error")
NoWaterRet == [caller |-> 0, key |-> 0, asked |-> FALSE, data |-> EmptyList,
               from |-> "none"]

NoLimit == [isRateLimited |-> FALSE, rateLimitResetTime |-> 0, consecutiveErrors |-> 0]

RECURSIVE Pow2(_)
Pow2(n) == IF n = 0 THEN 1 ELSE 2 * Pow2(n - 1)

\* Math.min(30000, 1000 * Math.pow(2, consecutiveErrors))
BackoffMs(consecutiveErrors) ==
  IF 1000 * Pow2(consecutiveErrors) < 30000 THEN 1000 * Pow2(consecutiveErrors) ELSE 30000

\* isRateLimited && Date.now() < rateLimitResetTime
BackingOff(l, t) == l.isRateLimited /\ t < l.rateLimitResetTime

\* what the API does with the request
WaterResponses == {"ok", "429", "http500", "badJson"}

\* mutant: no eviction
SetCachedResultUnbounded(m, e) == MapSet(m, e)

\* setCachedResult: the eviction of the first key when size >= MAX_CACHE_SIZE,
\* then responseCache.set(key, ...)
SetCachedResult(m, e) ==
  IF Len(m) >= MAX_CACHE_SIZE THEN MapSet(DeleteFirst(m), e) ELSE MapSet(m, e)

\* fetchWaterBodies up to its return of the cached list, its return of []
\* while backing off, or to `await fetch`
FetchWaterBodies(c, south, includeSmall) ==
  /\ waterCalls[c].pc = "idle"
  /\ LET key == GetBboxCacheKey(CacheKeyBox(south, includeSmall))
         i == IndexOf(responseCache, key)
     IN IF i # 0 /\ Fresh(responseCache[i], now, CACHE_TTL)
          THEN /\ waterRet' = [caller |-> c, key |-> key, asked |-> includeSmall,
                               data |-> responseCache[i].data, from |-> "cache"]
               /\ UNCHANGED waterCalls
        ELSE IF BackingOff(limiter, now)
          THEN /\ waterRet' = [caller |-> c, key |-> key, asked |-> includeSmall,
                               data |-> EmptyList, from |-> "backoff"]
               /\ UNCHANGED waterCalls
          ELSE /\ waterCalls' = [waterCalls EXCEPT ![c] =
                     [pc |-> "fetching", south |-> south, small |-> includeSmall,
                      key |-> key]]
               /\ UNCHANGED waterRet
  /\ UNCHANGED <<responseCache, limiter>>

\* a direct call of fetchWaterBodies
WaterGet(c, south, includeSmall) ==
  /\ FetchWaterBodies(c, south, includeSmall)
  /\ UNCHANGED <<jobVars, poll, call, probes, credentials, crashes, sideVars, now, censusCache,
                 censusCalls, censusRet>>

\* the request settles with `resp`: 429 starts a back-off, any other failure
\* is counted, a parsed response is stored; every failure returns []
FetchSettles(c, resp) ==
  /\ waterCalls[c].pc = "fetching"
  /\ waterCalls' = [waterCalls EXCEPT ![c] = NoWaterCall]
  /\ LET errors == limiter.consecutiveErrors + 1
         data == WaterBodies(waterCalls[c].south, waterCalls[c].small, now)
         gaveUp == [caller |-> c, key |-> waterCalls[c].key,
                    asked |-> waterCalls[c].small, data |-> EmptyList,
                    from |-> "error"]
     IN CASE resp = "429" ->
               /\ limiter' = [isRateLimited |-> TRUE,
                              rateLimitResetTime |-> now + BackoffMs(errors),
                              consecutiveErrors |-> errors]
               /\ waterRet' = [gaveUp EXCEPT !.from = "429"]
               /\ UNCHANGED responseCache
          [] resp = "http500" ->
               /\ limiter' = [limiter EXCEPT !.consecutiveErrors = errors]
               /\ waterRet' = gaveUp
               /\ UNCHANGED responseCache
          [] resp = "badJson" ->
               /\ limiter' = [limiter EXCEPT !.isRateLimited = FALSE,
                                              !.consecutiveErrors = 1]
               /\ waterRet' = gaveUp
               /\ UNCHANGED responseCache
          [] OTHER ->
               /\ limiter' = [limiter EXCEPT !.isRateLimited = FALSE,
                                              !.consecutiveErrors = 0]
               /\ responseCache' = SetCachedResult(responseCache,
                     [key |-> waterCalls[c].key, data |-> data, timestamp |-> now])
               /\ waterRet' = [gaveUp EXCEPT !.data = data, !.from = "fetch"]

\* the request of a direct call settles
WaterFetched(c, resp) ==
  /\ FetchSettles(c, resp)
  /\ UNCHANGED <<jobVars, poll, call, probes, credentials, crashes, sideVars, now, censusCache,
                 censusCalls, censusRet>>

(* ------------ geodata client: fetchWaterBodiesDebounced --------------- *)
\* const threshold = 0.001, in units of 0.0000001 degree
threshold == 10000

Abs(n) == IF n < 0 THEN 0 - n ELSE n

\* Math.abs(bbox.south - lastBbox.south) < threshold; the boxes tried have
\* their other edges in common and lie well off the threshold
Unchanged(bbox, lastBbox) == Abs(bbox - lastBbox) < threshold

\* timers: the timers that are set and have not fired, each with the bbox
\* and includeSmall of its closure; debounceTimer: the handle held by the
\* variable (0 for null); lastBbox (0 for null); handles: the handles
\* setTimeout has given out; awaiting: the callers whose fetch a timer
\* callback awaits; recent: the bbox of the latest call; fired: the bbox of
\* the fetch of the timer that fired last; callback: the bbox whose results
\* the callback was passed last
NoDebounce == [timers |-> {}, debounceTimer |-> 0, lastBbox |-> 0, handles |-> 0,
               awaiting |-> {}, recent |-> 0, fired |-> 0, callback |-> 0]

\* `if (debounceTimer) clearTimeout(debounceTimer)`: no effect on a timer
\* that has fired
ClearTimeout(timers, handle) == {t \in timers : t.id # handle}

\* one call of fetchWaterBodiesDebounced
FetchWaterBodiesDebounced(bbox, includeSmall) ==
  /\ IF debounce.lastBbox # 0 /\ Unchanged(bbox, debounce.lastBbox)
       THEN debounce' = [debounce EXCEPT !.recent = bbox]
       ELSE /\ debounce.handles < MaxTimers
            /\ LET handle == debounce.handles + 1
               IN debounce' = [debounce EXCEPT
                     !.recent = bbox,
                     !.timers = ClearTimeout(@, debounce.debounceTimer)
                                  \cup {[id |-> handle, box |-> bbox, small |-> includeSmall]},
                     !.debounceTimer = handle,
                     !.handles = handle]
  /\ UNCHANGED <<jobVars, poll, call, probes, credentials, crashes, cacheVars,
                 scan, settingsDocs, instanceCalls>>

\* a timer fires: lastBbox = bbox, then fetchWaterBodies up to its await or,
\* when it returns at once, on to callback(results)
TimerFires(c) ==
  \E t \in debounce.timers :
    /\ FetchWaterBodies(c, t.box, t.small)
    /\ debounce' = [debounce EXCEPT
          !.timers = @ \ {t},
          !.lastBbox = t.box,
          !.fired = t.box,
          !.awaiting = IF waterCalls'[c].pc = "fetching" THEN @ \cup {c} ELSE @,
          !.callback = IF waterCalls'[c].pc = "fetching" THEN @ ELSE t.box]
    /\ UNCHANGED <<jobVars, poll, call, probes, credentials, crashes, now, censusCache,
                   censusCalls, censusRet, scan, settingsDocs, instanceCalls>>

\* the request of a timer callback settles: callback(results)
TimerFetched(c, resp) ==
  /\ c \in debounce.awaiting
  /\ FetchSettles(c, resp)
  /\ debounce' = [debounce EXCEPT !.awaiting = @ \ {c},
                                  !.callback = waterCalls[c].south]
  /\ UNCHANGED <<jobVars, poll, call, probes, credentials, crashes, now, censusCache,
                 censusCalls, censusRet, scan, settingsDocs, instanceCalls>>

(* ------------- jobService: the cell grid of a region scan ------------- *)
\* The coordinates are IEEE 754 doubles.  A double d with 0 <= d < 4 that is
\* a multiple of 2^-60 is written as the limbs <<a, b, c>> of the integer
\* d * 2^60 = a * 2^40 + b * 2^20 + c.
Limb == 1024 * 1024
Zero == <<0, 0, 0>>

\* the limbs brought back into 0 .. Limb - 1
Carry(x) ==
  LET c == x[3] % Limb
      b == (x[2] + (x[3] \div Limb)) % Limb
      a == x[1] + ((x[2] + (x[3] \div Limb)) \div Limb)
  IN <<a, b, c>>

\* exact sum, difference (of x >= y) and multiple
Plus(x, y) == Carry(<<x[1] + y[1], x[2] + y[2], x[3] + y[3]>>)
Minus(x, y) == Carry(<<x[1] - y[1], x[2] - y[2], x[3] - y[3]>>)
Times(k, x) == Carry(<<k * x[1], k * x[2], k * x[3]>>)

Less(x, y) ==
  \/ x[1] < y[1]
  \/ x[1] = y[1] /\ x[2] < y[2]
  \/ x[1] = y[1] /\ x[2] = y[2] /\ x[3] < y[3]

RECURSIVE BitLength(_)
BitLength(n) == IF n = 0 THEN 0 ELSE 1 + BitLength(n \div 2)

\* the result of an arithmetic operation: the exact value rounded to the
\* nearest double, a tie to the one with the even significand.  The exact
\* value has 40 + BitLength(a) bits, a double keeps the leading 53.
RoundToDouble(x) ==
  LET drop == BitLength(x[1]) - 13
  IN IF drop <= 0 THEN x
     ELSE LET unit == 2 ^ drop
              rest == x[3] % unit
              odd == (x[3] \div unit) % 2 = 1
              up == 2 * rest > unit \/ (2 * rest = unit /\ odd)
          IN Carry(<<x[1], x[2], x[3] - rest + (IF up THEN unit ELSE 0)>>)

\* x + y, x - y and k * x in double arithmetic (k a small whole number)
FloatPlus(x, y) == RoundToDouble(Plus(x, y))
FloatMinus(x, y) == RoundToDouble(Minus(x, y))
FloatTimes(k, x) == RoundToDouble(Times(k, x))

\* the double that the decimal literal k/10 of the job's params is parsed to
Tenth(k) ==
  CASE k = 0 -> Zero
    [] k = 1 -> <<104857, 629145, 629152>>
    [] k = 2 -> <<209715, 209715, 209728>>
    [] k = 3 -> <<314572, 838860, 838848>>
    [] k = 4 -> <<419430, 419430, 419456>>
    [] k = 5 -> <<524288, 0, 0>>
    [] k = 6 -> <<629145, 629145, 629120>>
    [] k = 7 -> <<734003, 209715, 209664>>
    [] k = 8 -> <<838860, 838860, 838912>>

\* const cellSize = 0.1
cellSize == Tenth(1)

\* the whole part of the exact quotient x / y: the largest n with n * y <= x
RECURSIVE Whole(_, _, _)
Whole(x, y, n) == IF Less(x, Times(n + 1, y)) THEN n ELSE Whole(x, y, n + 1)

\* Math.ceil(x / y) for x > 0: with n the whole part of the exact quotient
\* and r = x - n * y, the double x / y is n when r = 0 or when r / y is at
\* most half the gap 2^(e - 52) between n and the next double, e =
\* BitLength(n) - 1 (a tie goes to n, whose significand is even); that is
\* when r <= y / 2^(53 - e), and y / 2^40 is y's first limb.  Otherwise the
\* double x / y lies above n and its ceiling is n + 1.
CeilOfQuotient(x, y) ==
  LET n == Whole(x, y, 0)
      r == Minus(x, Times(n, y))
      half == y[1] \div (2 ^ (14 - BitLength(n)))
  IN IF r = Zero THEN n
     ELSE IF n = 0 THEN 1
     ELSE IF r[1] = 0 /\ r[2] = 0 /\ r[3] <= half THEN n
     ELSE n + 1

\* Math.min
MathMin(x, y) == IF Less(y, x) THEN y ELSE x

\* the two nested loops that push the cells, row by row
Cells(south, west, north, east) ==
  LET latCells == CeilOfQuotient(FloatMinus(north, south), cellSize)
      lngCells == CeilOfQuotient(FloatMinus(east, west), cellSize)
  IN [i \in 1..(latCells * lngCells) |->
        LET latI == (i - 1) \div lngCells
            lngI == (i - 1) % lngCells
        IN [south |-> FloatPlus(south, FloatTimes(latI, cellSize)),
            west |-> FloatPlus(west, FloatTimes(lngI, cellSize)),
            north |-> MathMin(FloatPlus(south, FloatTimes(latI + 1, cellSize)), north),
            east |-> MathMin(FloatPlus(west, FloatTimes(lngI + 1, cellSize)), east)]]

NoScan == [type |-> "none", bounds |-> <<Zero, Zero, Zero, Zero>>, cells |-> << >>,
           totalCells |-> 0]

\* the result of executeWaterScan: { cells, totalCells: cells.length, bounds }
ExecuteWaterScan(south, west, north, east) ==
  /\ scan = NoScan
  /\ scan' = [type |-> "water-scan", bounds |-> <<south, west, north, east>>,
              cells |-> Cells(south, west, north, east),
              totalCells |-> Len(Cells(south, west, north, east))]
  /\ UNCHANGED <<jobVars, poll, call, probes, credentials, crashes, cacheVars,
                 settingsDocs, instanceCalls, debounce>>

\* the result of executeFullAnalysis: { scanCells: cells, bounds }
ExecuteFullAnalysis(south, west, north, east) ==
  /\ scan = NoScan
  /\ scan' = [type |-> "full-analysis", bounds |-> <<south, west, north, east>>,
              cells |-> Cells(south, west, north, east),
              totalCells |-> 0]
  /\ UNCHANGED <<jobVars, poll, call, probes, credentials, crashes, cacheVars,
                 settingsDocs, instanceCalls, debounce>>

(* ------------------- Settings.getInstance ----------------------------- *)
\* the call up to `await this.findOne()`
GetInstance(c) ==
  /\ instanceCalls[c] = "idle"
  /\ instanceCalls' = [instanceCalls EXCEPT ![c] = "findOne"]
  /\ UNCHANGED <<jobVars, poll, call, probes, credentials, crashes, cacheVars,
                 scan, settingsDocs, debounce>>

\* the store executes findOne: `if (!settings)` the call goes on to
\* `await this.create({})`, otherwise it returns the document
FindOneDone(c) ==
  /\ instanceCalls[c] = "findOne"
  /\ instanceCalls' = [instanceCalls EXCEPT ![c] =
                         IF settingsDocs = 0 THEN "create" ELSE "returned"]
  /\ UNCHANGED <<jobVars, poll, call, probes, credentials, crashes, cacheVars,
                 scan, settingsDocs, debounce>>

\* the store executes create({}): one more document; the call returns it
CreateDone(c) ==
  /\ instanceCalls[c] = "create"
  /\ settingsDocs' = settingsDocs + 1
  /\ instanceCalls' = [instanceCalls EXCEPT ![c] = "returned"]
  /\ UNCHANGED <<jobVars, poll, call, probes, credentials, crashes, cacheVars,
                 scan, debounce>>

(* ------------------- the process stops and starts --------------------- *)
\* the process stops and is started again: runningCount is 0 and the
\* demographics cache is empty again, the start-up timer is armed, every call
\* in flight is gone with the process (a workflow that was executing is
\* lost), the collection is as it was
Restart ==
  /\ crashes < MaxCrashes
  /\ crashes' = crashes + 1
  /\ runningCount' = 0
  /\ creating' = 0
  /\ queries' = 0
  /\ cancelOps' = {}
  /\ cancelRet' = "none"
  /\ booted' = FALSE
  /\ task' = [j \in DOMAIN task |->
                IF task[j].pc \in {"none", "ended"} THEN task[j]
                ELSE [task[j] EXCEPT !.pc = "lost"]]
  /\ censusCache' = << >>
  /\ censusCalls' = [c \in Callers |-> NoCensusCall]
  /\ censusRet' = NoCensusRet
  /\ UNCHANGED <<jobs, cancelledPending, poll, call, probes, credentials, now,
                 responseCache, waterCalls, waterRet, limiter, sideVars>>

(* ------------- jobService: the lookups of a batch job ----------------- *)
UpperCase ==
  <<"A", "B", "C", "D", "E", "F", "G", "H", "I", "J", "K", "L", "M", "N", "O", "P", "Q", "R", "S", "T", "U", "V", "W", "X", "Y", "Z">>
LowerCase ==
  <<"a", "b", "c", "d", "e", "f", "g", "h", "i", "j", "k", "l", "m", "n", "o", "p", "q", "r", "s", "t", "u", "v", "w", "x", "y", "z">>

\* String.prototype.toLowerCase
ToLowerCase(text) ==
  [i \in DOMAIN text |->
     IF \E k \in DOMAIN UpperCase : UpperCase[k] = text[i]
       THEN LowerCase[CHOOSE k \in DOMAIN UpperCase : UpperCase[k] = text[i]]
       ELSE text[i]]

\* String.prototype.includes
Includes(text, word) ==
  \E i \in 0..(Len(text) - Len(word)) : SubSeq(text, i + 1, i + Len(word)) = word

Commercial == <<"c", "o", "m", "m", "e", "r", "c", "i", "a", "l">>
Residential == <<"r", "e", "s", "i", "d", "e", "n", "t", "i", "a", "l">>
Agricultural == <<"a", "g", "r", "i", "c", "u", "l", "t", "u", "r", "a", "l">>
Vacant == <<"v", "a", "c", "a", "n", "t">>

CommercialWords ==
  {<<"c", "o", "m", "m", "e", "r", "c", "i", "a", "l">>,
   <<"b", "u", "s", "i", "n", "e", "s", "s">>,
   <<"o", "f", "f", "i", "c", "e">>,
   <<"r", "e", "t", "a", "i", "l">>,
   <<"i", "n", "d", "u", "s", "t", "r", "i", "a", "l">>}
ResidentialWords ==
  {<<"r", "e", "s", "i", "d", "e", "n", "t", "i", "a", "l">>,
   <<"s", "i", "n", "g", "l", "e">>,
   <<"m", "u", "l", "t", "i">>,
   <<"c", "o", "n", "d", "o">>,
   <<"a", "p", "a", "r", "t", "m", "e", "n", "t">>,
   <<"f", "a", "m", "i", "l", "y">>}
AgriculturalWords ==
  {<<"a", "g", "r", "i", "c", "u", "l", "t", "u", "r", "a", "l">>,
   <<"f", "a", "r", "m">>}
VacantWords ==
  {<<"v", "a", "c", "a", "n", "t">>,
   <<"l", "a", "n", "d">>}

\* classifyPropertyFromSmarty(data); data is null when nothing was found
ClassifyPropertyFromSmarty(data) ==
  IF ~data.found THEN Unknown
  ELSE LET propType == ToLowerCase(data.propertyType)
       IN IF \E w \in CommercialWords : Includes(propType, w) THEN Commercial
          ELSE IF \E w \in ResidentialWords : Includes(propType, w) THEN Residential
          ELSE IF \E w \in AgriculturalWords : Includes(propType, w) THEN Agricultural
          ELSE IF \E w \in VacantWords : Includes(propType, w) THEN Vacant
          ELSE IF propType # << >> THEN propType
          ELSE Unknown

\* err.message || "Lookup failed"; the TypeError of a rejected lookup has a message
LookupFailed == "Cannot read properties of undefined"

\* results[wb.id]: the entry of the try block, or of its catch block when
\* lookupPropertyByCoordinates rejected
ItemResult(out) ==
  IF out.st = "rejected"
    THEN [success |-> FALSE, data |-> NoResult, error |-> LookupFailed,
          propertyType |-> Unknown]
    ELSE [success |-> TRUE, data |-> out.r, error |-> "",
          propertyType |-> ClassifyPropertyFromSmarty(out.r)]

\* mutant: no try/catch around the lookup of an item
LookupUncaught(t, job, out) ==
  IF out.st = "rejected" THEN Throw(t, LookupFailed)
  ELSE AtStep([t EXCEPT !.results = Append(t.results, ItemResult(out))],
              job, t.step + 1)

\* the lookup of an item settles with `out`: its entry is recorded and the
\* workflow goes on to processed++ and the delay
LookupSettled(t, job, out) ==
  AtStep([t EXCEPT !.results = Append(t.results, ItemResult(out))], job, t.step + 1)

\* `await smartyService.lookupPropertyByCoordinates(wb.lat, wb.lng)` settles
LookupDone(j, out) ==
  /\ task[j].pc = "await"
  /\ Steps(jobs[j])[task[j].step].op = "lookup"
  /\ task' = [task EXCEPT ![j] = LookupSettled(task[j], jobs[j], out)]
  /\ UNCHANGED <<jobs, runningCount, creating, queries, cancelOps, cancelRet,
                 cancelledPending, booted, beyondJobs>>

\* the vendor for the items of a batch: down, without an address for the
\* point, with a malformed entry, with an address only, or with a property
\* of some use type
BatchAnswers ==
  DownAnswers \cup NoAddressAnswers \cup LandUseAnswers
    \cup {<<"entryNoAddress", Unsent, Unsent, NoUse>>,
          <<"address", "valid", "http500", NoUse>>}

\* the vendor down, with a malformed entry or with a property
PlainAnswers ==
  DownAnswers \cup {<<"entryNoAddress", Unsent, Unsent, NoUse>>,
                    <<"address", "valid", "owner", NoUse>>}

\* what lookupPropertyByCoordinates returns to the workflow, the vendor
\* credentials set: the outcome of one of its lookups
BatchOutcomes == OutcomesWithCredentials(BatchAnswers)
PlainOutcomes == OutcomesWithCredentials(PlainAnswers)
PlainOutcomesUnconfigured == OutcomesWithoutCredentials(PlainAnswers)

\* ... under the credentials of the settings
LookupOutcomes(configured) ==
  IF configured THEN PlainOutcomes ELSE PlainOutcomesUnconfigured

(* ------------ PropertyController.lookupByCoordinates ------------------ *)
NotConfigured == "Smarty API is not configured. Set your Smarty credentials in the Settings panel."
NotFound == "Could not find property at these coordinates"
OwnerFound == "Property owner found"

\* the message of the response, given what lookupPropertyByCoordinates did
LookupByCoordinates(configured, out) ==
  IF ~configured THEN NotConfigured
  ELSE IF out.st = "rejected" THEN LookupFailed
  ELSE IF ~out.r.found THEN NotFound
  ELSE OwnerFound

\* the HTTP requests one _reverseAndLookup call sends
Requests(configured, answer) ==
  IF ~configured THEN 0
  ELSE IF answer[2] = Unsent THEN 1
  ELSE IF answer[3] = Unsent THEN 2
  ELSE 3

(* --------------------------- specifications --------------------------- *)
\* the collection when the process starts: empty, or holding one pending
\* record whose type is outside the enum
InitialStores == { << >>, << NewJob(LegacyType, 0, 1, 0) >> }

\* docs: the documents of the Settings collection
InitSystem(store, timerFired, configured, docs) ==
  /\ jobs = store
  /\ task = [j \in DOMAIN store |-> NoTask]
  /\ runningCount = 0
  /\ creating = 0
  /\ queries = 0
  /\ cancelOps = {}
  /\ cancelRet = "none"
  /\ cancelledPending = {}
  /\ booted = timerFired
  /\ poll = NoPoll
  /\ call = NoCall
  /\ probes = [i \in DOMAIN angles |-> Idle]
  /\ credentials = configured
  /\ crashes = 0
  /\ now = 0
  /\ censusCache = << >>
  /\ censusCalls = [c \in Callers |-> NoCensusCall]
  /\ censusRet = NoCensusRet
  /\ responseCache = << >>
  /\ waterCalls = [c \in Callers |-> NoWaterCall]
  /\ waterRet = NoWaterRet
  /\ limiter = NoLimit
  /\ scan = NoScan
  /\ settingsDocs = docs
  /\ instanceCalls = [c \in DOMAIN angles |-> "idle"]
  /\ debounce = NoDebounce

\* the process on a database whose Settings document exists
InitProcess(store, timerFired, configured) ==
  InitSystem(store, timerFired, configured, 1)

\* the process with the vendor credentials set
InitEngine(store, timerFired) == InitProcess(store, timerFired, TRUE)

\* the process right after the module is loaded
InitFresh == \E store \in InitialStores : InitEngine(store, FALSE)

\* the process serving requests: started on an empty collection, where the
\* start-up pass has come and gone without finding a job, or just loaded
\* with a pending record left in the collection
Init ==
  \/ InitEngine(<< >>, TRUE)
  \/ InitEngine(<< NewJob(LegacyType, 0, 1, 0) >>, FALSE)

\* the scheduler and the workflows it runs
Engine ==
  \/ SubmitReturn
  \/ Boot
  \/ QueryExec
  \/ \E j \in JobIds : ThenStart(j)
  \/ \E j \in JobIds : UpdRead(j)
  \/ \E j \in JobIds : UpdSave(j)
  \/ \E j \in JobIds : Final(j)
  \/ \E j \in JobIds : CatchRead(j)
  \/ \E j \in JobIds : CatchWrite(j)
  \/ \E j \in JobIds : Finally(j)

\* cancel requests by the requesters `users` for the ids `ids`
Cancels(ids, users) ==
  \/ \E j \in ids, u \in users : CancelFind(j, u)
  \/ \E j \in JobIds, saw \in {"pending", "running"} : CancelSave(j, saw)

\* jobs of every type, submitted one clock tick apart by requester 1, who may
\* cancel them at any moment
Next ==
  \/ \E type \in JobTypes, items \in 0..MaxItems : Submit(MaxJobs, type, items, 1, 1)
  \/ \E j \in JobIds, ok \in BOOLEAN : AwaitDone(j, ok)
  \/ \E j \in JobIds, out \in NoAddressOutcomes : LookupDone(j, out)
  \/ Engine
  \/ Cancels(JobIds, {1})

Spec == Init /\ [][Next]_vars

\* water-scan jobs of several requesters; cancel requests by any requester
\* for any id, also one that no job has
NextOwners ==
  \/ \E u \in Users : Submit(MaxJobs, "water-scan", 0, u, 1)
  \/ Engine
  \/ Cancels(1..(Len(jobs) + 1), Users)

SpecOwners == Init /\ [][NextOwners]_vars

\* more jobs than slots: water-scan jobs submitted at the same or at later
\* clock readings, never cancelled
NextSched ==
  \/ \E tick \in 0..1 : Submit(MaxSchedJobs, "water-scan", 0, 1, tick)
  \/ Engine

SpecSched == InitFresh /\ [][NextSched]_vars

\* the same with one more job: three jobs running and a fourth one waiting
NextOverload ==
  \/ \E tick \in 0..1 : Submit(MaxSchedJobs + 1, "water-scan", 0, 1, tick)
  \/ Engine

SpecOverload == InitFresh /\ [][NextOverload]_vars

\* more jobs than slots, and a client polling one of them.  The event loop
\* runs every callback that is ready and the store executes every operation
\* it was sent; the server answers every GET.
NextLive ==
  \/ Submit(MaxSchedJobs, "water-scan", 0, 1, 1)
  \/ Engine
  \/ \E j \in JobIds : PollStart(j, MaxPolls)
  \/ PollGet

\* one lookupPropertyByCoordinates call against a vendor that may answer
\* each request in any of the ways the service distinguishes
NextResolve ==
  \/ \E configured \in BOOLEAN : Resolve(DefaultRadius, configured)
  \/ \E out \in ProbeOutcomes(call.configured) : DirectSettle(out)
  \/ AfterDirect
  \/ \E i \in DOMAIN angles :
       \E out \in ProbeOutcomes(call.configured) : ProbeSettle(i, out, MaxHits)
  \/ RingDone

\* both callers (jobService.ts:239, authController.ts:178) pass no radius
SpecResolve == InitEngine(<< >>, TRUE) /\ [][NextResolve]_vars

\* the same call for any search radius
NextRadii ==
  \/ \E radius \in SearchRadii : Resolve(radius, TRUE)
  \/ \E out \in ProbeOutcomes(call.configured) : DirectSettle(out)
  \/ AfterDirect
  \/ \E i \in DOMAIN angles :
       \E out \in ProbeOutcomes(call.configured) : ProbeSettle(i, out, MaxHits)
  \/ RingDone

SpecRadii == InitEngine(<< >>, TRUE) /\ [][NextRadii]_vars

\* the same call for a point in the water (the direct lookup finds no
\* address) against a vendor whose responses are all well formed, with
\* several probes of a ring finding an address
NextRing ==
  \/ Resolve(DefaultRadius, TRUE)
  \/ \E out \in NoAddressOutcomes : DirectSettle(out)
  \/ AfterDirect
  \/ \E i \in DOMAIN angles :
       \E out \in CleanOutcomes : ProbeSettle(i, out, MaxRingHits)
  \/ RingDone

SpecRing == InitEngine(<< >>, TRUE) /\ [][NextRing]_vars

\* one batch job of up to MaxBatchItems items, with or without vendor
\* credentials in the settings, in a process just loaded on an empty
\* collection; its owner may cancel it at any moment
InitBatch == \E configured \in BOOLEAN : InitProcess(<< >>, FALSE, configured)

NextBatch ==
  \/ \E items \in 0..MaxBatchItems : Submit(1, "batch-property", items, 1, 1)
  \/ \E j \in JobIds : AwaitDone(j, TRUE)
  \/ \E j \in JobIds, out \in LookupOutcomes(credentials) : LookupDone(j, out)
  \/ Engine
  \/ Cancels(JobIds, {1})

SpecBatch == InitBatch /\ [][NextBatch]_vars

\* one batch job that is never cancelled, for items of every use type
NextEnrich ==
  \/ \E items \in 0..MaxBatchItems : Submit(1, "batch-property", items, 1, 1)
  \/ \E j \in JobIds : AwaitDone(j, TRUE)
  \/ \E j \in JobIds, out \in BatchOutcomes : LookupDone(j, out)
  \/ Engine

SpecEnrich == InitEngine(<< >>, FALSE) /\ [][NextEnrich]_vars

\* water-scan jobs in a process that stops and starts again; their owner may
\* cancel a job whose workflow went with the process
NextRestart ==
  \/ Submit(MaxCrashJobs, "water-scan", 0, 1, 1)
  \/ Engine
  \/ Cancels({j \in JobIds : task[j].pc = "lost"}, {1})
  \/ Restart

SpecRestart == InitFresh /\ [][NextRestart]_vars

\* demographic-load and combined-analysis jobs whose demographic fetch
\* resolves or rejects, never cancelled
NextFetch ==
  \/ \E type \in {"census-load", "full-analysis"} : Submit(MaxFetchJobs, type, 0, 1, 1)
  \/ \E j \in JobIds, ok \in BOOLEAN : AwaitDone(j, ok)
  \/ Engine

SpecFetch == InitEngine(<< >>, FALSE) /\ [][NextFetch]_vars

\* the probes of one ring load the credentials on a database that has no
\* Settings document yet
NextSettings ==
  \/ \E c \in DOMAIN angles : GetInstance(c)
  \/ \E c \in DOMAIN angles : FindOneDone(c)
  \/ \E c \in DOMAIN angles : CreateDone(c)

SpecSettings == InitSystem(<< >>, TRUE, FALSE, 0) /\ [][NextSettings]_vars

\* one region scan of a box whose edges lie on tenths of a degree
Boxes ==
  {<<Tenth(s), Tenth(w), Tenth(n), Tenth(e)>> :
     s \in 0..MaxTenths, w \in 0..MaxTenths, n \in 0..MaxTenths, e \in 0..MaxTenths}

NextGrid ==
  \/ \E box \in {b \in Boxes : Less(b[1], b[3]) /\ Less(b[2], b[4])} :
       ExecuteWaterScan(box[1], box[2], box[3], box[4])
  \/ \E box \in {b \in Boxes : Less(b[1], b[3]) /\ Less(b[2], b[4])} :
       ExecuteFullAnalysis(box[1], box[2], box[3], box[4])

SpecGrid == InitEngine(<< >>, TRUE) /\ [][NextGrid]_vars

\* the south edges of the boxes requested from the demographics cache for the
\* keys: on the grid of the key and `off` thousandths off it
CensusBoxes(keys, offs) == {10 * k + d : k \in keys, d \in offs}

\* the south edges of the boxes requested from the geodata client
WaterBoxes(keys) == {10000 * k : k \in keys}

\* the responses of the geodata API while the failures are counted up to MaxErrors
Responses(l) ==
  IF l.consecutiveErrors < MaxErrors THEN WaterResponses ELSE {"ok", "badJson"}

\* the clock readings around the expiry of an entry stored at 0
ExpiryInstants == {CACHE_TTL - 1, CACHE_TTL, CENSUS_CACHE_TTL - 1, CENSUS_CACHE_TTL}

\* one caller of each cache: a few boxes looked up again and again while the
\* clock advances past the two TTLs
NextExpiry ==
  \/ \E south \in CensusBoxes(1..ExpiryKeys, {0, 4}) : CensusGet(1, south)
  \/ \E ok \in BOOLEAN : CensusFetched(1, ok)
  \/ \E south \in WaterBoxes(1..ExpiryKeys), small \in BOOLEAN : WaterGet(1, south, small)
  \/ \E resp \in Responses(limiter) : WaterFetched(1, resp)
  \/ \E t \in ExpiryInstants : Tick(t)

SpecExpiry == InitEngine(<< >>, TRUE) /\ [][NextExpiry]_vars

\* the clock readings around the deadlines of the first two back-offs
BackoffInstants == {BackoffMs(1) - 1, BackoffMs(1), BackoffMs(2) - 1, BackoffMs(2)}

\* several calls of fetchWaterBodies at once, as the timers of the debounced
\* variant and the direct callers make them, while the API answers 200, 429
\* and other failures and the clock passes the back-off deadlines
NextBackoff ==
  \/ \E c \in Callers, south \in WaterBoxes(1..ExpiryKeys), small \in BOOLEAN :
       WaterGet(c, south, small)
  \/ \E c \in Callers : \E resp \in Responses(limiter) : WaterFetched(c, resp)
  \/ \E t \in BackoffInstants : Tick(t)

SpecBackoff == InitEngine(<< >>, TRUE) /\ [][NextBackoff]_vars

\* the boxes of the debounced calls: far apart, or 0.0004 degree apart
DebounceBoxes == {2 * threshold * k + d : k \in 1..MaxViews, d \in {0, 4000}}

\* the map view calls fetchWaterBodiesDebounced again and again while timers
\* fire and their requests settle
NextDebounce ==
  \/ \E bbox \in DebounceBoxes : FetchWaterBodiesDebounced(bbox, FALSE)
  \/ \E c \in Callers : TimerFires(c)
  \/ \E c \in Callers : \E resp \in Responses(limiter) : TimerFetched(c, resp)

SpecDebounce == InitEngine(<< >>, TRUE) /\ [][NextDebounce]_vars

\* the keys a caller asks for next, keys being named in the order in which
\* they are first stored: the first and the last key of the map, or the next
\* new key
Wanted(m, maxKey) ==
  (IF m = << >> THEN {} ELSE {m[1].key, m[Len(m)].key})
    \cup ({MaxOf({m[i].key : i \in DOMAIN m}) + 1} \cap 1..maxKey)

WaterUntouched == responseCache = << >> /\ waterCalls[1].pc = "idle"

\* the demographics cache has been taken beyond its capacity at the first
\* clock reading
CensusSettled ==
  /\ Len(censusCache) = CensusCacheMax
  /\ censusCache[1].key = 2
  /\ censusCalls[1].pc = "idle"
  /\ censusRet.from = "fetch"
  /\ now = 0 \/ ~WaterUntouched

\* one caller fills the demographics cache beyond its capacity and refreshes
\* entries that have expired; with that cache full, one caller does the same
\* with the geodata cache.  The two caches share no state.
NextCapacity ==
  \/ /\ WaterUntouched
     /\ \E k \in Wanted(censusCache, CensusCacheMax + ExtraKeys) :
          CensusGet(1, 10 * k)
  \/ WaterUntouched /\ CensusFetched(1, TRUE)
  \/ WaterUntouched /\ Tick(CENSUS_CACHE_TTL)
  \/ /\ CensusSettled
     /\ \E k \in Wanted(responseCache, MAX_CACHE_SIZE + ExtraKeys) :
          WaterGet(1, 10000 * k, FALSE)
  \/ CensusSettled /\ WaterFetched(1, "ok")
  \/ ~WaterUntouched /\ Tick(CACHE_TTL)

SpecCapacity == InitEngine(<< >>, TRUE) /\ [][NextCapacity]_vars

\* several callers of the cached demographic fetch at once; the entries
\* expire once the cache is full
NextRace ==
  \/ \E c \in Callers :
       \E k \in Wanted(censusCache, CensusCacheMax + ExtraKeys) :
         CensusGet(c, 10 * k)
  \/ \E c \in Callers, ok \in BOOLEAN : CensusFetched(c, ok)
  \/ Len(censusCache) = CensusCacheMax /\ Tick(CENSUS_CACHE_TTL)

SpecRace == InitEngine(<< >>, TRUE) /\ [][NextRace]_vars

SpecLive == InitFresh /\ [][NextLive]_vars /\ WF_vars(Engine) /\ WF_vars(PollGet)


(* ------------------------------ claims -------------------------------- *)
Terminal == {"completed", "failed", "cancelled"}

RunningJobs == {j \in JobIds : jobs[j].status = "running"}

\* executeJob calls started by a .then callback whose .finally callback has not run
Executing ==
  {j \in JobIds : task[j].pc \in {"read", "save", "await", "final",
                                  "catchRead", "catchWrite", "finally"}}

\* C1: the number of jobs with status running, and the number of workflows
\* executing, never exceeds the concurrency limit 2.
C1_ConcurrencyLimit ==
  /\ Cardinality(RunningJobs) <= JOB_CONCURRENCY
  /\ Cardinality(Executing) <= JOB_CONCURRENCY

AllowedTransitions ==
  { <<"pending", "running">>, <<"pending", "cancelled">>,
    <<"running", "completed">>, <<"running", "failed">>,
    <<"running", "cancelled">> }

\* C2: a job's status changes only along pending->running, pending->cancelled,
\* running->completed, running->failed, running->cancelled; a terminal status
\* never changes.
C2_StatusTransitions ==
  [][\A j \in JobIds :
       \/ jobs'[j].status = jobs[j].status
       \/ <<jobs[j].status, jobs'[j].status>> \in AllowedTransitions]_vars

\* C3: once a cancelJob call that read the job pending has returned, the job's
\* status is cancelled and no .then callback starts executing its workflow.
C3_CancelledPendingNeverStarts ==
  [][\A j \in cancelledPending :
       /\ jobs[j].status = "cancelled"
       /\ ~ThenStart(j)]_vars

\* C4: after a progress update of a workflow has found its job cancelled, the
\* workflow issues no further operation (no progress update, no terminal
\* write), the stored progress no longer changes and the stored status stays
\* cancelled.
C4_StopsOnCancel ==
  /\ [](\A j \in JobIds : task[j].sawCancel => jobs[j].status = "cancelled")
  /\ [][\A j \in JobIds :
          task[j].sawCancel =>
            /\ task'[j].sawCancel
            /\ task'[j].pc \in {"finally", "ended"}
            /\ jobs'[j].status = "cancelled"
            /\ jobs'[j].progress = jobs[j].progress]_vars

\* C4 witness: a workflow stopped by a progress update that found the job
\* cancelled after an earlier update had been saved; its executeJob call is over.
C4_Witness ==
  \E j \in JobIds :
    /\ task[j].sawCancel
    /\ task[j].pc = "ended"
    /\ jobs[j].progress > 0
    /\ jobs[j].status = "cancelled"

\* C5: once the cancellation is stored, no progress update changes the
\* record: a save of updateProgress on a cancelled job leaves progress and
\* statusMessage ('Cancelled by user') as they were.
C5_NoUpdateAfterCancel ==
  [][\A j \in JobIds :
       (jobs[j].status = "cancelled" /\ UpdSave(j)) =>
         /\ jobs'[j].progress = jobs[j].progress
         /\ jobs'[j].statusMessage = CancelledMessage]_vars

\* the cases in which the claim says cancel finds nothing to cancel
NotCancellable(j, u) ==
  \/ j \notin JobIds
  \/ jobs[j].createdBy # u
  \/ jobs[j].status \in Terminal

\* C6: cancel(jobId, owner) returns null (not found) and leaves every job
\* record unchanged, with no save to come, when the job does not exist, was
\* created by another owner, or is already completed, failed or cancelled.
C6_CancelNotFound ==
  [][\A j \in 1..(Len(jobs) + 1), u \in Users :
       (NotCancellable(j, u) /\ CancelFind(j, u)) =>
         /\ cancelRet' = "null"
         /\ jobs' = jobs
         /\ cancelOps' = cancelOps]_vars

\* C6 witness: a cancelJob call has returned null, no cancel is in flight or
\* has been saved, and the collection holds a completed job of requester 2.
C6_Witness ==
  /\ cancelRet = "null"
  /\ cancelOps = {}
  /\ \E j \in JobIds : jobs[j].status = "completed" /\ jobs[j].createdBy = 2

\* C7: whenever an executeJob call ends while a job is pending, the scheduling
\* pass triggered by that end issues its store query (which promotes a
\* pending job).
C7_EndPromotesPending ==
  [][\A j \in JobIds :
       (Pending # {} /\ Finally(j)) => queries' = queries + 1]_vars

\* C8: the job a scheduling pass promotes to running has the earliest
\* createdAt of the jobs pending at that moment: none of them is older.
C8_Fifo ==
  [][\A j \in JobIds :
       (jobs[j].status = "pending" /\ jobs'[j].status = "running") =>
         \A k \in Pending : jobs[j].createdAt <= jobs[k].createdAt]_vars

\* C8 witness: the older of two jobs has been promoted and the younger one,
\* created at a later clock reading, is still pending.
C8_Witness ==
  \E j, k \in JobIds :
    /\ jobs[j].status = "running" /\ task[j].pc = "then"
    /\ jobs[k].status = "pending"
    /\ jobs[j].createdAt < jobs[k].createdAt

\* C9: when a workflow step has thrown and executeJob has settled, the job,
\* unless cancelled, has status failed, the exception's message as its error
\* and completedAt set.
C9_ThrowFails ==
  \A j \in JobIds :
    (task[j].err # Null /\ task[j].pc \in {"finally", "ended"}
       /\ jobs[j].status # "cancelled") =>
      /\ jobs[j].status = "failed"
      /\ jobs[j].error = task[j].err
      /\ jobs[j].completedAt # Null

\* C9 witness: a batch-property job with no water bodies has ended failed.
C9_Witness ==
  \E j \in JobIds :
    /\ jobs[j].type = "batch-property" /\ jobs[j].items = 0
    /\ task[j].pc = "ended" /\ jobs[j].status = "failed"
    /\ jobs[j].error = NoWaterBodies

\* C10: the failure write of one job changes no other job's record, and
\* runningCount is never negative and equals the number of executeJob calls
\* started and not yet ended.
C10_FailureIsJobScoped ==
  /\ [](runningCount >= 0 /\ runningCount = Cardinality(Executing))
  /\ [][\A j \in JobIds :
          CatchWrite(j) => \A k \in JobIds \ {j} : jobs'[k] = jobs[k]]_vars

\* C10 witness: one job has ended failed and has released its slot while
\* two other jobs are still executing.
C10_Witness ==
  \E j \in JobIds :
    /\ jobs[j].status = "failed" /\ task[j].pc = "ended"
    /\ Cardinality(Executing) = 2
    /\ runningCount = 2

\* C11: in every state a job's result is non-null only if its status is
\* completed, and its error is non-null only if its status is failed.
C11_ResultErrorByStatus ==
  \A j \in JobIds :
    /\ (jobs[j].result # Null => jobs[j].status = "completed")
    /\ (jobs[j].error # Null => jobs[j].status = "failed")

Ended(j) == j \in JobIds /\ jobs[j].status \in Terminal

RingComplete == \A i \in DOMAIN probes : probes[i].st = "fulfilled"

\* the probes of the ring whose result has an owner name / a street
Owners == {i \in DOMAIN probes : probes[i].r.found /\ probes[i].r.ownerName # ""}
Streets == {i \in DOMAIN probes : probes[i].r.found /\ probes[i].r.street # ""}

Lowest(S) == CHOOSE i \in S : \A k \in S : i <= k

\* C14: when the direct lookup has returned a record with a non-empty owner
\* name, the call returns that record, no probe of any ring is issued and
\* exactly one coordinate lookup has been made.
C14_FastPath ==
  /\ [][(call.pc = "afterDirect" /\ call.direct.found /\ call.direct.ownerName # "")
          => (call'.pc = "returned" /\ call'.ret = call.direct)]_vars
  /\ []((call.pc = "returned" /\ call.direct.found /\ call.direct.ownerName # "")
          => /\ call.ret = call.direct
             /\ call.lookups = 1
             /\ call.ring = 0
             /\ \A i \in DOMAIN probes : probes[i].st = "idle")

\* C14 witness: the call has returned the direct record, which has an owner
\* name, after one coordinate lookup.
C14_Witness ==
  /\ call.pc = "returned"
  /\ call.ret.found /\ call.ret.ownerName # "" /\ call.ret.probe = <<0, 0>>
  /\ call.lookups = 1

\* C15: when the 8 results of ring 1 or ring 2 are in and one of them has an
\* owner name or a street, the call returns a result of that ring with an
\* owner name or a street and issues no probe of a later ring: the lookups
\* made are the direct one and 8 per ring up to that ring.
C15_EarlyTermination ==
  /\ [][(call.pc = "ring" /\ call.ring \in {1, 2} /\ RingComplete
           /\ Owners \cup Streets # {})
          => /\ call'.pc = "returned"
             /\ call'.ret \in {probes[i].r : i \in Owners \cup Streets}
             /\ call'.ring = call.ring
             /\ probes' = probes]_vars
  /\ [](call.pc = "returned"
          => /\ call.lookups = 1 + Len(angles) * call.ring
             /\ \A i \in DOMAIN probes : probes[i].st # "inflight"
             /\ (call.ring = 2 /\ Owners = {3} => call.ret = probes[3].r))

\* C15 witness: the call has returned the record with an owner name found by
\* the 90-degree probe of the 250 m ring, after 17 lookups.
C15_Witness ==
  /\ call.pc = "returned"
  /\ call.ring = 2 /\ Distances(call.radius)[2] = 250 /\ angles[3] = 90
  /\ call.ret.ownerName # "" /\ call.ret.probe = <<2, 3>>
  /\ call.lookups = 17

\* C16: the probes of ring 1 are issued only after the direct lookup has
\* completed, and the probes of ring k+1 only after all 8 probes of ring k
\* have completed; rings are entered one after the other.
C16_RingBarrier ==
  [][call'.ring # call.ring
      => /\ call'.ring = call.ring + 1
         /\ IF call.ring = 0
              THEN call.pc = "afterDirect"
              ELSE \A i \in DOMAIN probes : probes[i].st = "fulfilled"]_vars

\* C16 witness: the second ring is being probed: some of its probes have
\* completed, others are in flight.
C16_Witness ==
  /\ call.pc = "ring" /\ call.ring = 2
  /\ \E i \in DOMAIN probes : probes[i].st = "inflight"
  /\ \E i \in DOMAIN probes : probes[i].st = "fulfilled"

\* C17: a call that has returned after probing a ring has returned the
\* lowest-index result of that ring with an owner name, else the
\* lowest-index result with a street, else (after the last ring) the direct
\* result; a ring with neither is followed by the next ring.  The results
\* are held by probe index, whatever the order in which the probes completed.
C17_AcceptanceByIndex ==
  /\ []((call.pc = "returned" /\ call.ring >= 1)
          => call.ret = IF Owners # {} THEN probes[Lowest(Owners)].r
                        ELSE IF Streets # {} THEN probes[Lowest(Streets)].r
                        ELSE call.direct)
  /\ [][(call.pc = "ring" /\ RingComplete /\ Owners \cup Streets = {}
           /\ call.ring < 3)
          => call'.ring = call.ring + 1]_vars

\* C17 witness: the ring holds a result with a street and no owner name at a
\* lower index than a result with an owner name, and the latter was returned.
C17_Witness ==
  /\ call.pc = "returned" /\ call.ring >= 1
  /\ \E i, k \in DOMAIN probes :
       /\ i < k
       /\ i \in Streets \ Owners
       /\ k \in Owners
       /\ call.ret = probes[k].r

\* the call is over after three rings whose last one found no address
NoAddressAnywhere ==
  /\ call.pc \in {"returned", "threw"}
  /\ call.ring = 3
  /\ \A i \in DOMAIN probes : probes[i].st = "fulfilled" /\ ~probes[i].r.found

\* C18: when the direct lookup and the probes of all three rings have found
\* no address, the call has returned the direct result, which is a record
\* and not null, and has not thrown.
C18_ExhaustedNeverNull ==
  (NoAddressAnywhere /\ ~call.direct.found)
    => (call.pc = "returned" /\ call.ret = call.direct /\ call.ret.found)

\* C18 as amended: when the probes of all three rings have found no address,
\* the call has not thrown and has returned the direct result: the partial
\* record of the direct lookup if it produced one, null if it found no
\* address.
C18_ExhaustedReturnsDirect ==
  NoAddressAnywhere
    => /\ call.pc = "returned"
       /\ call.ret = call.direct
       /\ call.ret.found = call.direct.found
       /\ call.lookups = 25

\* C18 witness: the call has returned the ownerless partial record of the
\* direct lookup after three rings that found no address.
C18_Witness ==
  /\ NoAddressAnywhere
  /\ call.pc = "returned"
  /\ call.ret.found /\ call.ret.ownerName = "" /\ call.ret.street # ""
  /\ call.ret.probe = <<0, 0>>

\* C19: for every searchRadiusMeters the rings are probed at increasing
\* radii, and a call that has returned a result of a ring has left unprobed
\* only rings at least as far from the origin.
C19_IncreasingRadius ==
  /\ [][(call.ring >= 1 /\ call'.ring > call.ring)
          => Distances(call.radius)[call'.ring] >= Distances(call.radius)[call.ring]]_vars
  /\ []((call.pc = "returned" /\ call.ring >= 1)
          => \A m \in (call.ring + 1)..3 :
               Distances(call.radius)[m] >= Distances(call.radius)[call.ring])

\* C20: whatever the vendor answers to the requests of a probe of a ring,
\* the probe completes with a result (a record or none), the call does not
\* throw and no probe of the ring is left unevaluated.
C20_ProbeFailureAbsorbed ==
  call.ring >= 1 =>
    /\ call.pc # "threw"
    /\ \A i \in DOMAIN probes : probes[i].st \in {"inflight", "fulfilled"}

NothingFound == Fulfilled(NoResult)

\* C21: without vendor credentials a lookup sends no request to the vendor,
\* the interactive path answers with the not-configured message, which is
\* not the message for a property that was not found, and the entry a batch
\* job records for an item differs from the entry for a property that was
\* not found.
C21_NotConfiguredIsDistinct ==
  /\ \A answer \in VendorAnswers : Requests(FALSE, answer) = 0
  /\ \A out \in ProbeOutcomes(FALSE) :
       LookupByCoordinates(FALSE, out) # LookupByCoordinates(TRUE, NothingFound)
  /\ ~credentials =>
       \A j \in JobIds : \A i \in DOMAIN task[j].results :
         task[j].results[i] # ItemResult(NothingFound)

\* the classification expected for the use types tried
ExpectedClass ==
  {<<<<"S", "i", "n", "g", "l", "e", " ", "F", "a", "m", "i", "l", "y", " ", "R", "e", "s", "i", "d", "e", "n", "t", "i", "a", "l">>, Residential>>,
   <<<<"R", "e", "t", "a", "i", "l", " ", "S", "t", "o", "r", "e">>, Commercial>>,
   <<<<"F", "a", "r", "m">>, Agricultural>>,
   <<<<"V", "a", "c", "a", "n", "t", " ", "L", "a", "n", "d">>, Vacant>>,
   <<<<"C", "h", "u", "r", "c", "h">>, <<"c", "h", "u", "r", "c", "h">>>>,
   <<Unknown, Unknown>>}

\* C22: a batch job with at least one item is never failed, whatever the
\* vendor does; once its workflow has ended it is completed with progress
\* 100 and holds one entry per item, an item for which nothing came back
\* (vendor down, or the lookup threw) is classified unknown and every other
\* item by its own property use text.
C22_FailedItemsAreUnknown ==
  \A j \in JobIds :
    jobs[j].items >= 1 =>
      /\ jobs[j].status # "failed"
      /\ task[j].pc = "ended" =>
           /\ jobs[j].status = "completed"
           /\ jobs[j].progress = 100
           /\ Len(jobs[j].properties) = jobs[j].items
           /\ \A i \in DOMAIN jobs[j].properties :
                LET e == jobs[j].properties[i]
                IN IF ~e.data.found THEN e.propertyType = Unknown
                   ELSE <<e.data.propertyType, e.propertyType>> \in ExpectedClass

\* a completed job of three items: nothing came back for the second one, the
\* first and the third are a farm and a shop
C22_Witness ==
  \E j \in JobIds :
    /\ jobs[j].status = "completed" /\ jobs[j].progress = 100
    /\ Len(jobs[j].properties) >= 3
    /\ jobs[j].properties[1].propertyType = Agricultural
    /\ jobs[j].properties[2].data = NoResult
    /\ jobs[j].properties[2].propertyType = Unknown
    /\ jobs[j].properties[3].propertyType = Commercial

\* C28: while the workflow of a batch job runs, it issues at most one
\* coordinate lookup with the job stored as cancelled.
C28_OneLookupAfterCancel == \A j \in JobIds : task[j].late <= 1

\* a lookup issued for the first of three items, the job already cancelled
C28_Witness ==
  \E j \in JobIds :
    /\ jobs[j].status = "cancelled" /\ jobs[j].items >= 3
    /\ task[j].late = 1 /\ Len(task[j].results) = 0 /\ task[j].pc = "await"

\* a job stored as running whose workflow went with the process
Orphaned(j) == task[j].pc = "lost" /\ jobs[j].status = "running"

\* C29: a job that was running when the process stopped is not executed
\* again and its status stays running; only pending jobs are promoted.
C29_OrphanStaysRunning ==
  /\ [][\A j \in JobIds : Orphaned(j) => Orphaned(j)']_vars
  /\ [][\A j \in JobIds :
          (jobs[j].status # "running" /\ jobs'[j].status = "running")
            => jobs[j].status = "pending"]_vars

\* C29 as amended: a job that was running when the process stopped is not
\* executed again, and its record changes only when a cancel request sets
\* it cancelled; only pending jobs are promoted.
C29_OrphanOnlyCancelled ==
  /\ [][\A j \in JobIds :
          task[j].pc = "lost" =>
            /\ task'[j] = task[j]
            /\ \/ jobs'[j] = jobs[j]
               \/ /\ jobs[j].status = "running"
                  /\ jobs'[j] = SaveCancel(jobs[j])]_vars
  /\ [][\A j \in JobIds :
          (jobs[j].status # "running" /\ jobs'[j].status = "running")
            => jobs[j].status = "pending"]_vars

\* after the restart the start-up pass has promoted the pending job and its
\* workflow runs, the job orphaned by the stop still stored as running
C29_Witness ==
  /\ crashes = 1 /\ booted
  /\ \E j, k \in JobIds :
       /\ Orphaned(j)
       /\ jobs[k].status = "running" /\ task[k].pc \in {"read", "save", "final"}

(* ------------------------- the two caches ----------------------------- *)
Keys(m) == {m[i].key : i \in DOMAIN m}

\* the map holds an entry of the key whose age at t has reached the TTL
Stale(m, key, t, ttl) ==
  \E i \in DOMAIN m : m[i].key = key /\ t - m[i].timestamp >= ttl

\* the map holds an entry of the key that is younger than the TTL at t
Young(m, key, t, ttl) ==
  \E i \in DOMAIN m : m[i].key = key /\ t - m[i].timestamp < ttl

\* the step is a lookup that returns without a remote fetch
CensusReturnsUnfetched == censusRet' # censusRet /\ censusRet'.from = "cache"
WaterReturnsUnfetched == waterRet' # waterRet /\ waterRet'.from \in {"cache", "backoff"}

\* the step is a lookup that goes on to the remote fetch
CensusGoesToFetch(c) == censusCalls[c].pc = "idle" /\ censusCalls'[c].pc = "fetching"
WaterGoesToFetch(c) == waterCalls[c].pc = "idle" /\ waterCalls'[c].pc = "fetching"

\* C23 (as claimed): in both caches no lookup returns an entry whose age has
\* reached the TTL, and no lookup of a key with such an entry returns without
\* a fresh fetch.
C23_StaleLeadsToFetch ==
  [][/\ CensusReturnsUnfetched
          => ~Stale(censusCache, censusRet'.key, now, CENSUS_CACHE_TTL)
     /\ WaterReturnsUnfetched
          => ~Stale(responseCache, waterRet'.key, now, CACHE_TTL)]_vars

\* C23 (amended): in both caches no lookup returns an entry whose age has
\* reached the TTL; a lookup of a key with such an entry goes on to a fresh
\* fetch, except that the geodata client returns the empty list without a
\* fetch while it is backing off after a rate-limit response.
C23_StaleNeverReturned ==
  [][/\ CensusReturnsUnfetched
          => ~Stale(censusCache, censusRet'.key, now, CENSUS_CACHE_TTL)
     /\ WaterReturnsUnfetched /\ Stale(responseCache, waterRet'.key, now, CACHE_TTL)
          => /\ waterRet'.from = "backoff"
             /\ waterRet'.data = EmptyList
             /\ limiter.isRateLimited
             /\ now < limiter.rateLimitResetTime]_vars

\* a lookup of an expired entry is on its way to a fresh fetch in both caches
C23_Witness ==
  /\ censusCalls[1].pc = "fetching"
  /\ Stale(censusCache, censusCalls[1].key, now, CENSUS_CACHE_TTL)
  /\ waterCalls[1].pc = "fetching"
  /\ Stale(responseCache, waterCalls[1].key, now, CACHE_TTL)

\* C24: neither cache ever holds more entries than its capacity, 20 for the
\* demographics cache and 50 for the geodata cache, whatever was inserted,
\* overwrites of an existing key included.
C24_CapacityNeverExceeded ==
  /\ Len(censusCache) <= CensusCacheMax
  /\ Len(responseCache) <= MAX_CACHE_SIZE

\* both caches are full after insertions beyond their capacity, and an entry
\* of the geodata cache has been overwritten
C24_Witness ==
  /\ Len(censusCache) = CensusCacheMax
  /\ censusCache[1].key > 1
  /\ Len(responseCache) = MAX_CACHE_SIZE
  /\ responseCache[1].key > 1
  /\ \E i \in DOMAIN responseCache : responseCache[i].timestamp > 0

\* C25: while the entry stored under a key is younger than the TTL, a lookup
\* of that key returns the stored value and does not go to the remote fetch
\* (nor, in the geodata client, give up for a back-off).
C25_GetAfterPut ==
  [][/\ \A c \in Callers :
          /\ CensusGoesToFetch(c)
               => ~Young(censusCache, censusCalls'[c].key, now, CENSUS_CACHE_TTL)
          /\ WaterGoesToFetch(c)
               => ~Young(responseCache, waterCalls'[c].key, now, CACHE_TTL)
     /\ CensusReturnsUnfetched
          => \E i \in DOMAIN censusCache :
               /\ censusCache[i].key = censusRet'.key
               /\ censusCache[i].data = censusRet'.data
     /\ WaterReturnsUnfetched
          => IF Young(responseCache, waterRet'.key, now, CACHE_TTL)
               THEN \E i \in DOMAIN responseCache :
                      /\ responseCache[i].key = waterRet'.key
                      /\ responseCache[i].data = waterRet'.data
               ELSE waterRet'.from = "backoff"]_vars

\* both caches have answered from an entry stored one millisecond less than
\* the shorter TTL ago
C25_Witness ==
  /\ now = CACHE_TTL - 1
  /\ censusRet.from = "cache" /\ censusRet.data.at = 0
  /\ waterRet.from = "cache" /\ waterRet.data.at = 0

\* the entry of the key in the map
EntryOf(m, key) == m[IndexOf(m, key)]

\* an insertion of key into `old`, whose capacity is `max`, that gave `new`
\* evicted as claimed: beyond the capacity exactly one other entry, none of
\* whose fellows was inserted before it, and otherwise nothing
EvictsOldest(old, new, key, max) ==
  /\ key \in Keys(new)
  /\ IF Cardinality(Keys(old) \cup {key}) > max
       THEN \E gone \in Keys(old) \ {key} :
              /\ Keys(old) \ Keys(new) = {gone}
              /\ \A i \in DOMAIN old : old[i].timestamp >= EntryOf(old, gone).timestamp
       ELSE Keys(old) \ Keys(new) = {}

\* C26: an insertion that would take a cache beyond its capacity evicts
\* exactly one existing entry, the one with the oldest insertedAt and never
\* the one being inserted; any other insertion, an overwrite or a refresh of
\* an existing key included, evicts nothing.
C26_EvictsOldestOnlyBeyondCapacity ==
  [][/\ censusCache' # censusCache
          => EvictsOldest(censusCache, censusCache', censusRet'.key, CensusCacheMax)
     /\ responseCache' # responseCache
          => EvictsOldest(responseCache, responseCache', waterRet'.key, MAX_CACHE_SIZE)]_vars

\* C27: with several callers interleaving at the remote fetch the cache
\* keeps its capacity, holds one entry per key, each the data fetched for
\* that key at the time it is stamped with; every caller is returned data of
\* its own key, and what the cache returns is younger than the TTL.
C27_RaceKeepsCacheSound ==
  /\ [](/\ Len(censusCache) <= CensusCacheMax
        /\ \A i, k \in DOMAIN censusCache :
             censusCache[i].key = censusCache[k].key => i = k
        /\ \A i \in DOMAIN censusCache :
             /\ CensusKey(censusCache[i].data.box) = censusCache[i].key
             /\ censusCache[i].data.at = censusCache[i].timestamp
        /\ censusRet.from \in {"cache", "fetch"}
             => CensusKey(censusRet.data.box) = censusRet.key)
  /\ [][CensusReturnsUnfetched
          => now - censusRet'.data.at < CENSUS_CACHE_TTL]_vars

\* the cache is full, one caller has stored and been returned what it
\* fetched for a key, and another caller's fetch of the same key, begun
\* before that, is still in flight
C27_Witness ==
  /\ Len(censusCache) = CensusCacheMax
  /\ censusRet.caller = 1 /\ censusRet.from = "fetch"
  /\ censusCalls[2].pc = "fetching"
  /\ censusCalls[2].key = censusRet.key
  /\ Young(censusCache, censusRet.key, now, CENSUS_CACHE_TTL)

(* ------------------------ land-use categories ------------------------- *)
Mixed == <<"m", "i", "x", "e", "d">>
Categories == {Commercial, Residential, Agricultural, Vacant, Mixed, Unknown}

\* C31: the land-use category stored for a batch item is always one of
\* commercial, residential, agricultural, vacant, mixed, unknown, whatever
\* the vendor's property-type text; a missing result or a text that matches
\* no keyword gives unknown.
C31_CategoryIsOneOfSix ==
  \A j \in JobIds :
    \A i \in DOMAIN jobs[j].properties :
      /\ jobs[j].properties[i].propertyType \in Categories
      /\ jobs[j].properties[i].data = NoResult
           => jobs[j].properties[i].propertyType = Unknown

(* --------------------------- the scan grid ---------------------------- *)
\* C32: every cell of a region-scan result has south < north and west <
\* east and lies inside the bounding box, the rows and columns of cells abut
\* from the box's south-west corner to its north-east corner (so the cells
\* cover the box and overlap in no interior), and totalCells is the number
\* of cells.
C32_GridPartitionsBox ==
  scan.type # "none" =>
    /\ scan.cells # << >>
    /\ \A i \in DOMAIN scan.cells :
         LET cell == scan.cells[i]
         IN /\ Less(cell.south, cell.north)
            /\ Less(cell.west, cell.east)
            /\ ~Less(cell.south, scan.bounds[1])
            /\ ~Less(cell.west, scan.bounds[2])
            /\ ~Less(scan.bounds[3], cell.north)
            /\ ~Less(scan.bounds[4], cell.east)
            /\ \A k \in DOMAIN scan.cells :
                 \/ i = k
                 \/ ~Less(cell.south, scan.cells[k].north)
                 \/ ~Less(scan.cells[k].south, cell.north)
                 \/ ~Less(cell.west, scan.cells[k].east)
                 \/ ~Less(scan.cells[k].west, cell.east)
    /\ \E i \in DOMAIN scan.cells :
         scan.cells[i].south = scan.bounds[1] /\ scan.cells[i].west = scan.bounds[2]
    /\ \E i \in DOMAIN scan.cells :
         scan.cells[i].north = scan.bounds[3] /\ scan.cells[i].east = scan.bounds[4]
    /\ scan.type = "water-scan" => scan.totalCells = Len(scan.cells)

(* ------------------------- the Settings record ------------------------ *)
\* C33: however the first calls of Settings.getInstance interleave, the
\* Settings collection never holds more than one document.
C33_SettingsSingleton == settingsDocs <= 1

(* ------------------------- the geodata client ------------------------- *)
\* C34: what fetchWaterBodies returns from the cache was stored by a fetch
\* with the same includeSmall: a fetch with includeSmall = true is never
\* answered with the entry of a fetch of the same box with includeSmall =
\* false, nor the other way round.
C34_KeyDistinguishesModes ==
  waterRet.from = "cache" => waterRet.data.small = waterRet.asked

\* C35: after a 429 no request is sent to the geodata API before the
\* back-off deadline: a call goes on to `await fetch` only at or after
\* rateLimitResetTime, which is Date.now() + min(30000, 1000 *
\* 2^consecutiveErrors) of the latest 429.
C35_NoRequestBeforeDeadline ==
  [][\A c \in Callers : WaterGoesToFetch(c) => now >= limiter.rateLimitResetTime]_vars

(* ---------------------------- the scheduler --------------------------- *)
\* C36: no job's workflow is started more than once: a scheduling pass
\* hands executeJob only a job that was pending and whose workflow had never
\* been started, whatever other passes are in flight, and a workflow once
\* started never counts as not started again.
C36_StartedAtMostOnce ==
  [][\A j \in JobIds :
       /\ (task'[j].pc = "then" /\ task'[j] # task[j]) =>
            (task[j].pc = "none" /\ jobs[j].status = "pending")
       /\ task[j].pc # "none" => task'[j].pc # "none"]_vars

\* two workflows have been started while a further pass, which finds no
\* pending job, is still in flight
C36_Witness ==
  /\ queries > 0
  /\ Pending = {}
  /\ \E j, k \in JobIds : j # k /\ task[j].pc # "none" /\ task[k].pc # "none"

\* a scheduling pass is in flight, or about to be made: a createJob that has
\* not resumed yet, the start-up timer still armed, a findOneAndUpdate not yet
\* executed, or a promoted job whose .then callback has not run yet
PassInFlight ==
  \/ creating > 0
  \/ ~booted
  \/ queries > 0
  \/ \E j \in JobIds : task[j].pc = "then"

\* C37: the scheduler is work-conserving: whenever no scheduling pass is in
\* flight and some job is pending, runningCount equals JOB_CONCURRENCY; no
\* pending job waits while a slot is free, also not after the start-up pass
\* with several jobs pending.
C37_WorkConserving ==
  (~PassInFlight /\ Pending # {}) => runningCount = JOB_CONCURRENCY

(* --------------------- the demographic fetch fails -------------------- *)
\* the workflow of job j has returned or thrown and executeJob has dealt with it
Over(j) == task[j].pc \in {"finally", "ended"}

\* C38: a rejected demographic fetch makes a census-load job end failed with
\* the error's message and without a result, whereas a full-analysis job
\* never throws on it and ends completed with the scan cells and an empty
\* tract list in its result.
C38_FetchFailureByType ==
  \A j \in JobIds :
    /\ (jobs[j].type = "census-load" /\ task[j].err = FetchFailed) =>
         /\ jobs[j].status \in {"running", "failed"}
         /\ jobs[j].result = Null
         /\ Over(j) => /\ jobs[j].status = "failed"
                       /\ jobs[j].error = FetchFailed
                       /\ jobs[j].statusMessage = "Failed: " \o FetchFailed
    /\ (jobs[j].type = "full-analysis" /\ task[j].tracts = "empty") =>
         /\ task[j].err = Null
         /\ jobs[j].status \in {"running", "completed"}
         /\ Over(j) => /\ jobs[j].status = "completed"
                       /\ jobs[j].result = "analysis"
                       /\ jobs[j].tracts = "empty"
                       /\ jobs[j].error = Null

\* a census-load job has ended failed and a full-analysis job has ended
\* completed, both after their fetch was rejected
C38_Witness ==
  \E j, k \in JobIds :
    /\ jobs[j].type = "census-load" /\ task[j].err = FetchFailed
    /\ Over(j) /\ jobs[j].status = "failed"
    /\ jobs[k].type = "full-analysis" /\ task[k].tracts = "empty"
    /\ Over(k) /\ jobs[k].status = "completed"

(* ----------------------- the debounced fetch -------------------------- *)
\* a timer has fired in this step: a call that touches the timers takes a
\* new handle, a firing leaves the handle alone
TimerFired ==
  debounce'.timers # debounce.timers /\ debounce'.debounceTimer = debounce.debounceTimer

\* C39: whatever the sequence of fetchWaterBodiesDebounced calls, at most one
\* timer is pending, and the fetch a firing timer performs (whose results go
\* to the callback) is for the bounding box of the most recent call.
C39_TimerServesLatestCall ==
  [][/\ Cardinality(debounce'.timers) <= 1
     /\ TimerFired => debounce'.fired = debounce.recent]_vars
====
